---- MODULE Spec2Model ----
(***************************************************************************)
(* Model of the ComisionTecni delivery register: the "entregas" table,     *)
(* the API handlers that create, update, delete and report on its rows,    *)
(* the date normalization they apply, and the client pages that call them. *)
(* Strings are TLA+ strings, handled character by character as the code's  *)
(* trim / includes / split / regex do.                                     *)
(***************************************************************************)
EXTENDS Integers, Sequences, FiniteSets, TLC

VARIABLES entregas, resp, adminPc, admin, registro, vista, pantalla, suma, sesionActual, ruta, edicion, reset

vars == <<entregas, resp, adminPc, admin, registro, vista, pantalla, suma, sesionActual, ruta, edicion, reset>>

\* The state of the requests, the report and the two record pages
peticiones == <<entregas, resp, adminPc, admin, registro, vista>>

\* The state of the other pages and components
paginas == <<pantalla, suma, sesionActual, ruta, edicion, reset>>

Nulo == "<null>"

(***************************************************************************)
(* Bounds                                                                  *)
(***************************************************************************)
\* Rows the table may hold at once.
MaxEntregas == 2

\* Amounts one total may add up.
MaxSumandos == 3

\* Times a guarded page is mounted.
MaxMontajes == 3

(***************************************************************************)
(* String primitives (JavaScript semantics)                                *)
(***************************************************************************)
Car(s, i) == SubSeq(s, i, i)

\* Characters removed by String.prototype.trim that the inputs use.
EsBlanco(c) == c \in {" ", "\t", "\n"}

EsDigito(c) == c \in {"0", "1", "2", "3", "4", "5", "6", "7", "8", "9"}

RECURSIVE TrimInicio(_)
TrimInicio(s) ==
  IF Len(s) > 0 /\ EsBlanco(Car(s, 1)) THEN TrimInicio(Tail(s)) ELSE s

RECURSIVE TrimFin(_)
TrimFin(s) ==
  IF Len(s) > 0 /\ EsBlanco(Car(s, Len(s)))
  THEN TrimFin(SubSeq(s, 1, Len(s) - 1))
  ELSE s

\* Variant: only the leading blanks are removed
TrimSoloInicio(s) == TrimInicio(s)

\* s.trim()
Trim(s) == TrimFin(TrimInicio(s))

\* s.includes(c), c one character
Includes(s, c) == \E i \in 1..Len(s) : Car(s, i) = c

\* s.split(c)[0]: the part before the first c, the whole of s when c is absent
SplitPrimero(s, c) ==
  IF Includes(s, c)
  THEN LET i == CHOOSE k \in 1..Len(s) :
                  Car(s, k) = c /\ \A j \in 1..(k - 1) : Car(s, j) # c
       IN SubSeq(s, 1, i - 1)
  ELSE s

\* Variant: the pattern without its end anchor, /^\d{4}-\d{2}-\d{2}/
TestFormatoFechaPrefijo(s) ==
  /\ Len(s) >= 10
  /\ \A i \in {1, 2, 3, 4, 6, 7, 9, 10} : EsDigito(Car(s, i))
  /\ Car(s, 5) = "-"
  /\ Car(s, 8) = "-"

\* /^\d{4}-\d{2}-\d{2}$/.test(s)
TestFormatoFecha(s) ==
  /\ Len(s) = 10
  /\ \A i \in {1, 2, 3, 4, 6, 7, 9, 10} : EsDigito(Car(s, i))
  /\ Car(s, 5) = "-"
  /\ Car(s, 8) = "-"

\* needle occurs in hay
Contiene(hay, needle) ==
  \E i \in 1..(Len(hay) - Len(needle) + 1) :
      SubSeq(hay, i, i + Len(needle) - 1) = needle

\* Character order of the characters the model uses, as their code units.
OrdenCaracteres ==
  <<"\t", "\n", " ", "-", "/", "0", "1", "2", "3", "4", "5", "6", "7", "8",
    "9", ":", "T", "Z">>

Codigo(c) == CHOOSE i \in 1..Len(OrdenCaracteres) : OrdenCaracteres[i] = c

\* a < b on strings (code-unit order)
RECURSIVE MenorStr(_, _)
MenorStr(a, b) ==
  IF Len(b) = 0 THEN FALSE
  ELSE IF Len(a) = 0 THEN TRUE
  ELSE IF Car(a, 1) = Car(b, 1) THEN MenorStr(Tail(a), Tail(b))
  ELSE Codigo(Car(a, 1)) < Codigo(Car(b, 1))

MenorIgualStr(a, b) == a = b \/ MenorStr(a, b)

\* parseInt of a string of decimal digits
RECURSIVE ParseInt(_)
ParseInt(s) ==
  IF Len(s) = 0 THEN 0
  ELSE 10 * ParseInt(SubSeq(s, 1, Len(s) - 1)) + (Codigo(Car(s, Len(s))) - Codigo("0"))

(***************************************************************************)
(* Identity provider (Supabase Auth, external): tokens and users           *)
(***************************************************************************)
Usuarios == {"ana", "luis"}

\* Access tokens the provider currently honours, and their users.
UsuarioDeAccessToken(token) ==
  CASE token = "tok-ana" -> "ana"
    [] token = "tok-luis" -> "luis"
    [] token = "tok-eva" -> "eva"
    [] OTHER -> Nulo

\* Refresh tokens the provider currently honours, and their users.
UsuarioDeRefreshToken(token) ==
  CASE token = "ref-ana" -> "ana"
    [] token = "ref-luis" -> "luis"
    [] OTHER -> Nulo

\* obtenerUsuarioDesdeToken: the user of an access token, or null
ObtenerUsuarioDesdeToken(token) == UsuarioDeAccessToken(token)

StartsWithBearer(h) == h # Nulo /\ Len(h) >= 7 /\ SubSeq(h, 1, 7) = "Bearer "

\* The user of the two cookies: the access token's, else the refresh token's
UsuarioDeCookies(req) ==
  IF req.cookieAccess # Nulo /\ UsuarioDeAccessToken(req.cookieAccess) # Nulo
  THEN UsuarioDeAccessToken(req.cookieAccess)
  ELSE IF req.cookieRefresh # Nulo
       THEN UsuarioDeRefreshToken(req.cookieRefresh)
       ELSE Nulo

\* Variant: a header whose token resolves no user falls back to the cookies
ObtenerUsuarioConRespaldo(req) ==
  IF /\ StartsWithBearer(req.authorization)
     /\ ObtenerUsuarioDesdeToken(SubSeq(req.authorization, 8, Len(req.authorization))) # Nulo
  THEN ObtenerUsuarioDesdeToken(SubSeq(req.authorization, 8, Len(req.authorization)))
  ELSE UsuarioDeCookies(req)

\* obtenerUsuarioDesdeRequest: header first, then the two cookies
ObtenerUsuarioDesdeRequest(req) ==
  IF StartsWithBearer(req.authorization)
  THEN ObtenerUsuarioDesdeToken(SubSeq(req.authorization, 8, Len(req.authorization)))
  ELSE IF req.cookieAccess # Nulo /\ UsuarioDeAccessToken(req.cookieAccess) # Nulo
       THEN UsuarioDeAccessToken(req.cookieAccess)
       ELSE IF req.cookieRefresh # Nulo
            THEN UsuarioDeRefreshToken(req.cookieRefresh)
            ELSE Nulo

\* authHeader?.startsWith('Bearer ') ? authHeader.substring(7) : undefined
AccessTokenDeHeader(req) ==
  IF StartsWithBearer(req.authorization)
  THEN SubSeq(req.authorization, 8, Len(req.authorization))
  ELSE Nulo

(***************************************************************************)
(* The entregas table (PostgreSQL behind PostgREST)                        *)
(***************************************************************************)
EsBisiesto(y) == (y % 4 = 0 /\ y % 100 # 0) \/ y % 400 = 0

DiasDelMes(y, m) ==
  IF m = 2 THEN (IF EsBisiesto(y) THEN 29 ELSE 28)
  ELSE IF m \in {4, 6, 9, 11} THEN 30 ELSE 31

\* A YYYY-MM-DD text that the DATE column accepts.
FechaValidaPg(s) ==
  /\ TestFormatoFecha(s)
  /\ LET y == ParseInt(SubSeq(s, 1, 4))
         m == ParseInt(SubSeq(s, 6, 7))
         d == ParseInt(SubSeq(s, 9, 10))
     IN /\ y >= 1
        /\ m \in 1..12
        /\ d \in 1..DiasDelMes(y, m)

\* Variant: a table without the primary key on id
InsertarFilaSinClave(tabla, fila, uid) ==
  IF /\ uid = fila.user_id
     /\ FechaValidaPg(fila.fecha_domicilio)
     /\ fila.valor > 0
  THEN [ok |-> TRUE, tabla |-> tabla \cup {fila}]
  ELSE [ok |-> FALSE, tabla |-> tabla]

\* INSERT of one row by a client whose session user is uid: the primary key,
\* the DATE type, the CHECK on valor and the insert policy decide.
InsertarFila(tabla, fila, uid) ==
  IF /\ uid = fila.user_id
     /\ \A e \in tabla : e.id # fila.id
     /\ FechaValidaPg(fila.fecha_domicilio)
     /\ fila.valor > 0
  THEN [ok |-> TRUE, tabla |-> tabla \cup {fila}]
  ELSE [ok |-> FALSE, tabla |-> tabla]

(***************************************************************************)
(* Date normalization                                                      *)
(***************************************************************************)
\* Variant: normalization that strips a 'T' suffix but not a space suffix
NormalizarFechaCrearSinEspacio(fecha_domicilio) ==
  LET trimmed == Trim(fecha_domicilio)
      fechaNormalizada ==
        IF Includes(trimmed, "T") THEN SplitPrimero(trimmed, "T") ELSE trimmed
  IN [ok |-> TestFormatoFecha(fechaNormalizada), fecha |-> fechaNormalizada]

\* Variant: normalization that does not trim first
NormalizarFechaPutSinTrim(fecha_domicilio) ==
  LET sinHora == IF Includes(fecha_domicilio, "T")
                 THEN SplitPrimero(fecha_domicilio, "T") ELSE fecha_domicilio
      fechaNormalizada ==
        IF Includes(sinHora, " ") THEN SplitPrimero(sinHora, " ") ELSE sinHora
  IN [ok |-> TestFormatoFecha(fechaNormalizada), fecha |-> fechaNormalizada]

MensajeFechaInvalida(fecha) ==
  "Formato de fecha invalido: " \o fecha \o ". Se espera YYYY-MM-DD"

\* crearEntrega's normalization of fecha_domicilio
NormalizarFechaCrear(fecha_domicilio) ==
  LET trimmed == Trim(fecha_domicilio)
      sinHora == IF Includes(trimmed, "T") THEN SplitPrimero(trimmed, "T") ELSE trimmed
      fechaNormalizada ==
        IF Includes(sinHora, " ") THEN SplitPrimero(sinHora, " ") ELSE sinHora
  IN [ok |-> TestFormatoFecha(fechaNormalizada), fecha |-> fechaNormalizada]

\* The PUT handler's normalization of body.fecha_domicilio
NormalizarFechaPut(fecha_domicilio) ==
  LET trimmed == Trim(fecha_domicilio)
      sinHora == IF Includes(trimmed, "T") THEN SplitPrimero(trimmed, "T") ELSE trimmed
      fechaNormalizada ==
        IF Includes(sinHora, " ") THEN SplitPrimero(sinHora, " ") ELSE sinHora
  IN [ok |-> TestFormatoFecha(fechaNormalizada), fecha |-> fechaNormalizada]

\* The registration form's normalization of the date field before sending
NormalizarFechaRegistro(fechaDomicilio) ==
  LET trimmed == Trim(fechaDomicilio)
      sinHora == IF Includes(trimmed, "T") THEN SplitPrimero(trimmed, "T") ELSE trimmed
      fechaParaEnviar ==
        IF Includes(sinHora, " ") THEN SplitPrimero(sinHora, " ") ELSE sinHora
  IN [ok |-> TestFormatoFecha(fechaParaEnviar), fecha |-> fechaParaEnviar]

(***************************************************************************)
(* crearEntrega                                                            *)
(***************************************************************************)
\* Variant: crearEntrega without the format check before the insert
CrearEntregaSinValidar(tabla, user_id, fecha_domicilio, numero_factura, valor, accessToken, id, ahora) ==
  LET norm == NormalizarFechaCrear(fecha_domicilio)
      nuevaEntrega == [id |-> id, user_id |-> user_id,
                       fecha_domicilio |-> norm.fecha,
                       numero_factura |-> numero_factura,
                       valor |-> valor, created_at |-> ahora]
      uid == IF accessToken # Nulo THEN UsuarioDeAccessToken(accessToken) ELSE Nulo
      ins == InsertarFila(tabla, nuevaEntrega, uid)
  IN IF ~ins.ok
     THEN [ok |-> FALSE, error |-> "Error de Supabase", tabla |-> tabla,
           fila |-> nuevaEntrega]
     ELSE [ok |-> TRUE, error |-> "", tabla |-> ins.tabla, fila |-> nuevaEntrega]

\* The result of crearEntrega: the row inserted, or the error thrown.
\* id and ahora stand for Date.now()+Math.random() and new Date().
CrearEntrega(tabla, user_id, fecha_domicilio, numero_factura, valor, accessToken, id, ahora) ==
  LET norm == NormalizarFechaCrear(fecha_domicilio)
      nuevaEntrega == [id |-> id, user_id |-> user_id,
                       fecha_domicilio |-> norm.fecha,
                       numero_factura |-> numero_factura,
                       valor |-> valor, created_at |-> ahora]
      uid == IF accessToken # Nulo THEN UsuarioDeAccessToken(accessToken) ELSE Nulo
      ins == InsertarFila(tabla, nuevaEntrega, uid)
  IN IF ~norm.ok
     THEN [ok |-> FALSE, error |-> MensajeFechaInvalida(fecha_domicilio), tabla |-> tabla,
           fila |-> nuevaEntrega]
     ELSE IF ~ins.ok
          THEN [ok |-> FALSE, error |-> "Error de Supabase", tabla |-> tabla,
                fila |-> nuevaEntrega]
          ELSE [ok |-> TRUE, error |-> "", tabla |-> ins.tabla, fila |-> nuevaEntrega]

(***************************************************************************)
(* JSON values of a request body                                           *)
(***************************************************************************)
\* body.valor: a JSON number, a JSON string, or absent.
Numero(n) == [tipo |-> "numero", n |-> n, texto |-> ""]

Texto(s) == [tipo |-> "texto", n |-> 0, texto |-> s]

NoNumero == Texto("abc")

Indefinido == [tipo |-> "undefined", n |-> 0, texto |-> ""]

\* The longest run of decimal digits that s starts with.
RECURSIVE PrefijoDigitos(_)
PrefijoDigitos(s) ==
  IF Len(s) > 0 /\ EsDigito(Car(s, 1)) THEN Car(s, 1) \o PrefijoDigitos(Tail(s)) ELSE ""

\* parseFloat(v) on whole numbers: a number is itself; a text is read after
\* its leading blanks as an optional sign and the digits that follow, whatever
\* comes after them; NaN when no digit is there. undefined gives NaN.
ParseFloat(v) ==
  IF v.tipo = "numero" THEN [nan |-> FALSE, n |-> v.n]
  ELSE IF v.tipo # "texto" THEN [nan |-> TRUE, n |-> 0]
  ELSE LET t == TrimInicio(v.texto)
           signo == Len(t) > 0 /\ Car(t, 1) \in {"-", "+"}
           d == PrefijoDigitos(IF signo THEN Tail(t) ELSE t)
       IN IF d = "" THEN [nan |-> TRUE, n |-> 0]
          ELSE [nan |-> FALSE,
                n |-> IF signo /\ Car(t, 1) = "-" THEN 0 - ParseInt(d) ELSE ParseInt(d)]

\* isNaN(parseFloat(v))
EsNaN(v) == ParseFloat(v).nan

\* !s for a string
Falsy(s) == s = ""

\* A response: status, the error text of an error body, the row of a row body;
\* op and fecha recall the request it answers (its method and date field).
Respuesta(op, status, error, fecha) ==
  [op |-> op, status |-> status, error |-> error, fecha |-> fecha, entrega |-> <<>>,
   reporte |-> <<>>]

RespuestaFila(op, status, fecha, fila) ==
  [op |-> op, status |-> status, error |-> "", fecha |-> fecha, entrega |-> <<fila>>,
   reporte |-> <<>>]

RespuestaReporte(op, status, reporte) ==
  [op |-> op, status |-> status, error |-> "", fecha |-> "", entrega |-> <<>>,
   reporte |-> <<reporte>>]

(***************************************************************************)
(* POST /api/entregas                                                      *)
(***************************************************************************)
\* Variant: the record's owner is taken from the body when it names one
ResultadoPostConDueno(tabla, req, body, id, ahora) ==
  LET usuario == ObtenerUsuarioDesdeRequest(req)
      numeroFacturaTrim == Trim(body.numero_factura)
      dueno == IF body.user_id # Nulo THEN body.user_id ELSE usuario
      creada == CrearEntrega(tabla, dueno, body.fecha_domicilio, numeroFacturaTrim,
                             ParseFloat(body.valor).n, AccessTokenDeHeader(req), id, ahora)
  IN IF usuario = Nulo
     THEN [tabla |-> tabla, resp |-> Respuesta("POST", 401, "No autorizado", body.fecha_domicilio)]
     ELSE IF Falsy(body.fecha_domicilio) \/ Falsy(body.numero_factura)
             \/ body.valor.tipo = "undefined"
     THEN [tabla |-> tabla,
           resp |-> Respuesta("POST", 400, "Todos los campos son obligatorios",
                              body.fecha_domicilio)]
     ELSE IF EsNaN(body.valor) \/ ParseFloat(body.valor).n <= 0
     THEN [tabla |-> tabla,
           resp |-> Respuesta("POST", 400, "El valor debe ser un numero mayor a cero",
                              body.fecha_domicilio)]
     ELSE IF numeroFacturaTrim = ""
     THEN [tabla |-> tabla,
           resp |-> Respuesta("POST", 400, "El numero de factura no puede estar vacio",
                              body.fecha_domicilio)]
     ELSE IF ~creada.ok
     THEN [tabla |-> tabla,
           resp |-> Respuesta("POST", 500, creada.error, body.fecha_domicilio)]
     ELSE [tabla |-> creada.tabla,
           resp |-> RespuestaFila("POST", 201, body.fecha_domicilio, creada.fila)]

\* The handler's effect: the table afterwards and the response.
ResultadoPost(tabla, req, body, id, ahora) ==
  LET usuario == ObtenerUsuarioDesdeRequest(req)
      numeroFacturaTrim == Trim(body.numero_factura)
      creada == CrearEntrega(tabla, usuario, body.fecha_domicilio, numeroFacturaTrim,
                             ParseFloat(body.valor).n, AccessTokenDeHeader(req), id, ahora)
  IN IF usuario = Nulo
     THEN [tabla |-> tabla, resp |-> Respuesta("POST", 401, "No autorizado", body.fecha_domicilio)]
     ELSE IF Falsy(body.fecha_domicilio) \/ Falsy(body.numero_factura)
             \/ body.valor.tipo = "undefined"
     THEN [tabla |-> tabla,
           resp |-> Respuesta("POST", 400, "Todos los campos son obligatorios",
                              body.fecha_domicilio)]
     ELSE IF EsNaN(body.valor) \/ ParseFloat(body.valor).n <= 0
     THEN [tabla |-> tabla,
           resp |-> Respuesta("POST", 400, "El valor debe ser un numero mayor a cero",
                              body.fecha_domicilio)]
     ELSE IF numeroFacturaTrim = ""
     THEN [tabla |-> tabla,
           resp |-> Respuesta("POST", 400, "El numero de factura no puede estar vacio",
                              body.fecha_domicilio)]
     ELSE IF ~creada.ok
     THEN [tabla |-> tabla,
           resp |-> Respuesta("POST", 500, creada.error, body.fecha_domicilio)]
     ELSE [tabla |-> creada.tabla,
           resp |-> RespuestaFila("POST", 201, body.fecha_domicilio, creada.fila)]

(***************************************************************************)
(* PUT and DELETE /api/entregas/[id]                                       *)
(***************************************************************************)
\* Variant: every row of the owner gets the new fields
ActualizarEntregaDelUsuario(tabla, id, user_id, fecha_domicilio, numero_factura, valor) ==
  LET Nueva(e) == [e EXCEPT !.fecha_domicilio = fecha_domicilio,
                            !.numero_factura = numero_factura,
                            !.valor = valor]
  IN IF /\ \E e \in tabla : e.id = id /\ e.user_id = user_id
        /\ FechaValidaPg(fecha_domicilio)
        /\ valor > 0
     THEN [ok |-> TRUE,
           tabla |-> {IF e.user_id = user_id THEN Nueva(e) ELSE e : e \in tabla},
           fila |-> Nueva(CHOOSE e \in tabla : e.id = id)]
     ELSE [ok |-> FALSE, tabla |-> tabla, fila |-> <<>>]

\* actualizarEntrega: the owner's row id gets the three new fields, when the
\* table's DATE type and CHECK on valor accept them.
ActualizarEntrega(tabla, id, user_id, fecha_domicilio, numero_factura, valor) ==
  LET Nueva(e) == [e EXCEPT !.fecha_domicilio = fecha_domicilio,
                            !.numero_factura = numero_factura,
                            !.valor = valor]
  IN IF /\ \E e \in tabla : e.id = id /\ e.user_id = user_id
        /\ FechaValidaPg(fecha_domicilio)
        /\ valor > 0
     THEN [ok |-> TRUE,
           tabla |-> {IF e.id = id THEN Nueva(e) ELSE e : e \in tabla},
           fila |-> Nueva(CHOOSE e \in tabla : e.id = id)]
     ELSE [ok |-> FALSE, tabla |-> tabla, fila |-> <<>>]

\* Variant: the row id is removed whoever owns it
EliminarEntregaDeCualquiera(tabla, id, user_id) ==
  IF \E e \in tabla : e.id = id
  THEN [ok |-> TRUE, tabla |-> {e \in tabla : e.id # id}]
  ELSE [ok |-> FALSE, tabla |-> tabla]

\* eliminarEntrega: the owner's row id is removed.
EliminarEntrega(tabla, id, user_id) ==
  IF \E e \in tabla : e.id = id /\ e.user_id = user_id
  THEN [ok |-> TRUE, tabla |-> {e \in tabla : e.id # id}]
  ELSE [ok |-> FALSE, tabla |-> tabla]

ResultadoPut(tabla, req, entregaId, body) ==
  LET usuario == ObtenerUsuarioDesdeRequest(req)
      numeroFacturaTrim == Trim(body.numero_factura)
      norm == NormalizarFechaPut(body.fecha_domicilio)
      act == ActualizarEntrega(tabla, entregaId, usuario, norm.fecha,
                               numeroFacturaTrim, ParseFloat(body.valor).n)
  IN IF usuario = Nulo
     THEN [tabla |-> tabla, resp |-> Respuesta("PUT", 401, "No autorizado", body.fecha_domicilio)]
     ELSE IF Falsy(body.fecha_domicilio) \/ Falsy(body.numero_factura)
             \/ body.valor.tipo = "undefined"
     THEN [tabla |-> tabla,
           resp |-> Respuesta("PUT", 400, "Todos los campos son obligatorios",
                              body.fecha_domicilio)]
     ELSE IF EsNaN(body.valor) \/ ParseFloat(body.valor).n <= 0
     THEN [tabla |-> tabla,
           resp |-> Respuesta("PUT", 400, "El valor debe ser un numero mayor a cero",
                              body.fecha_domicilio)]
     ELSE IF numeroFacturaTrim = ""
     THEN [tabla |-> tabla,
           resp |-> Respuesta("PUT", 400, "El numero de factura no puede estar vacio",
                              body.fecha_domicilio)]
     ELSE IF ~norm.ok
     THEN [tabla |-> tabla,
           resp |-> Respuesta("PUT", 400, MensajeFechaInvalida(body.fecha_domicilio),
                              body.fecha_domicilio)]
     ELSE IF ~act.ok
     THEN [tabla |-> tabla,
           resp |-> Respuesta("PUT", 500, "Error al actualizar entrega", body.fecha_domicilio)]
     ELSE [tabla |-> act.tabla,
           resp |-> RespuestaFila("PUT", 200, body.fecha_domicilio, act.fila)]

ResultadoDelete(tabla, req, entregaId) ==
  LET usuario == ObtenerUsuarioDesdeRequest(req)
      eli == EliminarEntrega(tabla, entregaId, usuario)
  IN IF usuario = Nulo
     THEN [tabla |-> tabla, resp |-> Respuesta("DELETE", 401, "No autorizado", "")]
     ELSE IF ~eli.ok
     THEN [tabla |-> tabla, resp |-> Respuesta("DELETE", 500, "Error al eliminar entrega", "")]
     ELSE [tabla |-> eli.tabla, resp |-> Respuesta("DELETE", 200, "", "")]

(***************************************************************************)
(* Registration page: the form's submit                                    *)
(***************************************************************************)
\* The form's valor field when left empty; otherwise it holds a Texto.
CampoVacio == Texto("")

SinSesion == [access_token |-> Nulo, refresh_token |-> Nulo]

\* The request the form sends: the session's access token as a bearer header,
\* its refresh token as the sb-refresh-token cookie.
PeticionDeSesion(sesion) ==
  [authorization |-> IF sesion.access_token # Nulo
                     THEN "Bearer " \o sesion.access_token ELSE Nulo,
   cookieAccess |-> Nulo,
   cookieRefresh |-> sesion.refresh_token]

\* What the form shows after a submit that sent nothing.
RechazoLocal(tabla, fechaDomicilio, msg) ==
  [tabla |-> tabla, enviada |-> FALSE, resp |-> Respuesta("", 0, "", ""),
   registro |-> [fechaDomicilio |-> fechaDomicilio, error |-> msg, exito |-> FALSE]]

\* What the form shows once the POST it sent is answered.
TrasEnvio(fechaDomicilio, post) ==
  IF post.resp.status \notin 200..299
  THEN [tabla |-> post.tabla, enviada |-> TRUE, resp |-> post.resp,
        registro |-> [fechaDomicilio |-> fechaDomicilio,
                      error |-> IF post.resp.error # "" THEN post.resp.error
                                ELSE "Error al registrar la entrega",
                      exito |-> FALSE]]
  ELSE [tabla |-> post.tabla, enviada |-> TRUE, resp |-> post.resp,
        registro |-> [fechaDomicilio |-> "", error |-> "", exito |-> TRUE]]

\* RegistroPage.manejarSubmit: the form state afterwards, the table, and the
\* response of the POST it sent (enviada), if it sent one.
ResultadoSubmit(tabla, sesion, fechaDomicilio, numeroFactura, valor, id, ahora) ==
  LET numeroFacturaNumerico == Trim(numeroFactura)
      norm == NormalizarFechaRegistro(fechaDomicilio)
  IN IF Falsy(fechaDomicilio) \/ Falsy(numeroFactura) \/ Falsy(valor.texto)
     THEN RechazoLocal(tabla, fechaDomicilio, "Todos los campos son obligatorios")
     ELSE IF EsNaN(valor) \/ ParseFloat(valor).n <= 0
     THEN RechazoLocal(tabla, fechaDomicilio, "El valor debe ser un numero mayor a cero")
     ELSE IF numeroFacturaNumerico = ""
     THEN RechazoLocal(tabla, fechaDomicilio, "El numero de factura no puede estar vacio")
     ELSE IF ~norm.ok
     THEN RechazoLocal(tabla, fechaDomicilio, "Formato de fecha invalido")
     ELSE TrasEnvio(fechaDomicilio,
                    ResultadoPost(tabla, PeticionDeSesion(sesion),
                                  [fecha_domicilio |-> norm.fecha,
                                   numero_factura |-> numeroFacturaNumerico,
                                   valor |-> Numero(ParseFloat(valor).n)], id, ahora))

(***************************************************************************)
(* Range query and aggregation (lib/database.ts)                           *)
(***************************************************************************)
\* Variant: a range query exclusive at its upper end
FilasEnRangoExclusivo(tabla, fechaInicioNormalizada, fechaFinNormalizada) ==
  {e \in tabla : /\ MenorIgualStr(fechaInicioNormalizada, e.fecha_domicilio)
                 /\ MenorStr(e.fecha_domicilio, fechaFinNormalizada)}

\* Variant: a range query that takes its two bounds in either order
FilasEnRangoSinOrden(tabla, a, b) ==
  {e \in tabla :
     \/ MenorIgualStr(a, e.fecha_domicilio) /\ MenorIgualStr(e.fecha_domicilio, b)
     \/ MenorIgualStr(b, e.fecha_domicilio) /\ MenorIgualStr(e.fecha_domicilio, a)}

\* The rows the range query selects: .gte(fecha_inicio).lte(fecha_fin)
FilasEnRango(tabla, fechaInicioNormalizada, fechaFinNormalizada) ==
  {e \in tabla : /\ MenorIgualStr(fechaInicioNormalizada, e.fecha_domicilio)
                 /\ MenorIgualStr(e.fecha_domicilio, fechaFinNormalizada)}

\* Variant: the rows in any order
EnCualquierOrden(filas) ==
  {l \in [1..Cardinality(filas) -> filas] :
      \A i, j \in 1..Cardinality(filas) : i # j => l[i] # l[j]}

\* .order('fecha_domicilio', {ascending: false}): every listing of the rows
\* by date descending; rows of one date come in any order.
OrdenadasPorFechaDesc(filas) ==
  {l \in [1..Cardinality(filas) -> filas] :
      /\ \A i, j \in 1..Cardinality(filas) : i # j => l[i] # l[j]
      /\ \A i \in 1..(Cardinality(filas) - 1) :
            MenorIgualStr(l[i + 1].fecha_domicilio, l[i].fecha_domicilio)}

\* obtenerEntregasPorRangoFechas with the service key: the lists it may
\* return. A bound the DATE column cannot parse makes the query fail, and
\* the function then returns [].
ObtenerEntregasPorRangoFechas(tabla, fecha_inicio, fecha_fin) ==
  LET fechaInicioNormalizada == SplitPrimero(fecha_inicio, "T")
      fechaFinNormalizada == SplitPrimero(fecha_fin, "T")
  IN IF FechaValidaPg(fechaInicioNormalizada) /\ FechaValidaPg(fechaFinNormalizada)
     THEN OrdenadasPorFechaDesc(
            FilasEnRango(tabla, fechaInicioNormalizada, fechaFinNormalizada))
     ELSE {<<>>}

\* The keys of totalesMap in insertion order: each user_id at its first row.
RECURSIVE ClavesEnOrden(_)
ClavesEnOrden(l) ==
  IF Len(l) = 0 THEN <<>>
  ELSE LET antes == ClavesEnOrden(SubSeq(l, 1, Len(l) - 1))
           u == l[Len(l)].user_id
       IN IF \E i \in 1..Len(antes) : antes[i] = u THEN antes ELSE Append(antes, u)

\* Variant: each row overwrites its user's total instead of adding to it
RECURSIVE SumaDeUsuarioUltima(_, _)
SumaDeUsuarioUltima(l, u) ==
  IF Len(l) = 0 THEN 0
  ELSE IF l[Len(l)].user_id = u THEN l[Len(l)].valor
  ELSE SumaDeUsuarioUltima(SubSeq(l, 1, Len(l) - 1), u)

\* totalesMap.get(userId) after the forEach: the running sum of valor
RECURSIVE SumaDeUsuario(_, _)
SumaDeUsuario(l, u) ==
  IF Len(l) = 0 THEN 0
  ELSE SumaDeUsuario(Tail(l), u) + (IF Head(l).user_id = u THEN Head(l).valor ELSE 0)

\* Variant: the totals left in the map's insertion order
SinOrdenar(t) == t

\* Array.prototype.sort((a, b) => b.total - a.total): stable, total descending
RECURSIVE OrdenarPorTotalDesc(_)
OrdenarPorTotalDesc(t) ==
  IF Len(t) <= 1 THEN t
  ELSE LET resto == OrdenarPorTotalDesc(SubSeq(t, 1, Len(t) - 1))
           x == t[Len(t)]
           k == Cardinality({i \in 1..Len(resto) : resto[i].total >= x.total})
       IN SubSeq(resto, 1, k) \o <<x>> \o SubSeq(resto, k + 1, Len(resto))

\* calcularTotalesPorUsuario, from the rows its query returned
CalcularTotalesPorUsuario(leidas) ==
  LET claves == ClavesEnOrden(leidas)
      totales == [i \in 1..Len(claves) |->
                    [user_id |-> claves[i], total |-> SumaDeUsuario(leidas, claves[i])]]
  IN OrdenarPorTotalDesc(totales)

\* calcularTotalGeneral, from the rows its query returned
RECURSIVE CalcularTotalGeneral(_)
CalcularTotalGeneral(leidas) ==
  IF Len(leidas) = 0 THEN 0
  ELSE CalcularTotalGeneral(SubSeq(leidas, 1, Len(leidas) - 1)) + leidas[Len(leidas)].valor

(***************************************************************************)
(* Administrators                                                          *)
(***************************************************************************)
\* The e-mail the identity provider holds for a user.
EmailDe(u) ==
  CASE u = "ana" -> "Ana@tecni.co"
    [] u = "luis" -> "luis@tecni.co"
    [] OTHER -> ""

\* NEXT_PUBLIC_ADMIN_EMAILS of the deployment
AdminEmails == " ana@tecni.co ,jefe@tecni.co"

Mayusculas == "ABCDEFGHIJKLMNOPQRSTUVWXYZ"

Minusculas == "abcdefghijklmnopqrstuvwxyz"

Minuscula(c) ==
  IF \E i \in 1..Len(Mayusculas) : Car(Mayusculas, i) = c
  THEN Car(Minusculas, CHOOSE i \in 1..Len(Mayusculas) : Car(Mayusculas, i) = c)
  ELSE c

RECURSIVE ToLowerCase(_)
ToLowerCase(s) ==
  IF Len(s) = 0 THEN "" ELSE Minuscula(Car(s, 1)) \o ToLowerCase(Tail(s))

\* s.split(',') as a set of parts
RECURSIVE SplitComas(_)
SplitComas(s) ==
  IF Includes(s, ",")
  THEN {SplitPrimero(s, ",")}
         \cup SplitComas(SubSeq(s, Len(SplitPrimero(s, ",")) + 2, Len(s)))
  ELSE {s}

\* Variant: no early return for a missing or empty email
EsAdministradorSinGuarda(adminEmails, email) ==
  IF email = Nulo THEN FALSE
  ELSE ToLowerCase(email) \in {ToLowerCase(Trim(e)) : e \in SplitComas(adminEmails)}

\* esAdministrador, for a value adminEmails of NEXT_PUBLIC_ADMIN_EMAILS
\* (absent reads as '')
EsAdministradorEn(adminEmails, email) ==
  IF email = Nulo \/ Falsy(email) THEN FALSE
  ELSE ToLowerCase(email) \in {ToLowerCase(Trim(e)) : e \in SplitComas(adminEmails)}

\* esAdministrador in this deployment
EsAdministrador(email) == EsAdministradorEn(AdminEmails, email)

(***************************************************************************)
(* Personal listing (GET /api/entregas and the MisEntregas page)           *)
(***************************************************************************)
\* Variant: neither the user_id filter nor the select policy applies
ObtenerEntregasPorUsuarioSinFiltro(tabla, user_id, accessToken) ==
  OrdenadasPorFechaDesc(tabla)

\* obtenerEntregasPorUsuario: the lists it may return. The select policy
\* shows a client only the rows of its session user.
ObtenerEntregasPorUsuario(tabla, user_id, accessToken) ==
  LET uid == IF accessToken # Nulo THEN UsuarioDeAccessToken(accessToken) ELSE Nulo
  IN OrdenadasPorFechaDesc({e \in tabla : e.user_id = user_id /\ e.user_id = uid})

\* GET /api/entregas: the status and the lists it may answer with
ResultadoGet(tabla, req) ==
  LET usuario == ObtenerUsuarioDesdeRequest(req)
  IN IF usuario = Nulo
     THEN [status |-> 401, listas |-> {<<>>}]
     ELSE [status |-> 200,
           listas |-> ObtenerEntregasPorUsuario(tabla, usuario, AccessTokenDeHeader(req))]

\* MisEntregasPage.entregasFiltradas
EntregasFiltradas(v) ==
  LET Pasa(entrega) ==
        /\ ~(~Falsy(v.fechaInicio) /\ MenorStr(entrega.fecha_domicilio, v.fechaInicio))
        /\ ~(~Falsy(v.fechaFin) /\ MenorStr(v.fechaFin, entrega.fecha_domicilio))
  IN SelectSeq(v.entregas, Pasa)

\* MisEntregasPage.total
RECURSIVE TotalFiltradas(_)
TotalFiltradas(l) ==
  IF Len(l) = 0 THEN 0
  ELSE TotalFiltradas(SubSeq(l, 1, Len(l) - 1)) + l[Len(l)].valor

(***************************************************************************)
(* Amounts with decimals: the numbers of the totals are IEEE 754 doubles.  *)
(* A double is a significand of 53 bits, first bit 1, and the exponent of  *)
(* its last bit; zero has no bits.                                         *)
(***************************************************************************)
BitsSignificando == 53

Cero == [mant |-> <<>>, exp |-> 0]

\* The binary digits of a natural number, none for 0
RECURSIVE BitsDe(_)
BitsDe(n) == IF n = 0 THEN <<>> ELSE Append(BitsDe(n \div 2), n % 2)

\* The first k binary digits of r/100 after the point, r < 100
RECURSIVE FraccionBits(_, _)
FraccionBits(r, k) ==
  IF k = 0 THEN <<>>
  ELSE <<(2 * r) \div 100>> \o FraccionBits((2 * r) % 100, k - 1)

\* The remainder left after those k digits
RECURSIVE FraccionResto(_, _)
FraccionResto(r, k) ==
  IF k = 0 \/ r = 0 THEN r ELSE FraccionResto((2 * r) % 100, k - 1)

RECURSIVE QuitarCeros(_)
QuitarCeros(bits) ==
  IF Len(bits) > 0 /\ bits[1] = 0 THEN QuitarCeros(Tail(bits)) ELSE bits

RECURSIVE Incrementar(_)
Incrementar(bits) ==
  IF Len(bits) = 0 THEN <<1>>
  ELSE IF bits[Len(bits)] = 0 THEN SubSeq(bits, 1, Len(bits) - 1) \o <<1>>
  ELSE Incrementar(SubSeq(bits, 1, Len(bits) - 1)) \o <<0>>

\* Round to nearest, ties to even: bits has no leading zero and at least 53
\* digits, its last digit weighs 2^expUltimo, resto tells of a non-zero rest
\* beyond bits.
Redondear(bits, expUltimo, resto) ==
  LET n == Len(bits)
      mant == SubSeq(bits, 1, BitsSignificando)
      exp == expUltimo + (n - BitsSignificando)
      guarda == n > BitsSignificando /\ bits[BitsSignificando + 1] = 1
      pegajoso == resto \/ \E i \in (BitsSignificando + 2)..n : bits[i] = 1
      sube == guarda /\ (pegajoso \/ mant[BitsSignificando] = 1)
      mas == Incrementar(mant)
  IN IF ~sube THEN [mant |-> mant, exp |-> exp]
     ELSE IF Len(mas) > BitsSignificando
     THEN [mant |-> SubSeq(mas, 1, BitsSignificando), exp |-> exp + 1]
     ELSE [mant |-> mas, exp |-> exp]

\* The double a DECIMAL(10,2) value of c hundredths is read as
DobleDeCentavos(c) ==
  LET digitos == BitsSignificando + 10
      todos == BitsDe(c \div 100) \o FraccionBits(c % 100, digitos)
  IN IF c = 0 THEN Cero
     ELSE Redondear(QuitarCeros(todos), 0 - digitos, FraccionResto(c % 100, digitos) # 0)

\* Binary addition of two digit sequences of one length, with a carry
RECURSIVE SumarConAcarreo(_, _, _)
SumarConAcarreo(a, b, c) ==
  IF Len(a) = 0 THEN (IF c = 1 THEN <<1>> ELSE <<>>)
  ELSE LET n == Len(a)
           t == a[n] + b[n] + c
       IN IF t < 2
          THEN SumarConAcarreo(SubSeq(a, 1, n - 1), SubSeq(b, 1, n - 1), 0) \o <<t>>
          ELSE SumarConAcarreo(SubSeq(a, 1, n - 1), SubSeq(b, 1, n - 1), 1) \o <<t - 2>>

CerosBits(n) == [i \in 1..n |-> 0]

\* total + entrega.valor on doubles: the exact sum, rounded
SumarDoble(a, b) ==
  LET menor == IF a.exp < b.exp THEN a.exp ELSE b.exp
      x == a.mant \o CerosBits(a.exp - menor)
      y == b.mant \o CerosBits(b.exp - menor)
      largo == IF Len(x) > Len(y) THEN Len(x) ELSE Len(y)
      total == SumarConAcarreo(CerosBits(largo - Len(x)) \o x,
                               CerosBits(largo - Len(y)) \o y, 0)
  IN IF a = Cero THEN b
     ELSE IF b = Cero THEN a
     ELSE Redondear(total, menor, FALSE)

(***************************************************************************)
(* Display of dates (MisEntregasPage and AdminPage)                        *)
(***************************************************************************)
Meses ==
  <<"enero", "febrero", "marzo", "abril", "mayo", "junio", "julio", "agosto",
    "septiembre", "octubre", "noviembre", "diciembre">>

MesesCortos ==
  <<"ene", "feb", "mar", "abr", "may", "jun", "jul", "ago", "sep", "oct", "nov", "dic">>

\* A natural number in a template literal
RECURSIVE Str(_)
Str(n) ==
  IF n < 10 THEN Car("0123456789", n + 1)
  ELSE Str(n \div 10) \o Car("0123456789", (n % 10) + 1)

\* meses[month - 1] in a template literal
NombreDeMes(meses, month) == IF month \in 1..12 THEN meses[month] ELSE "undefined"

\* new Date(fechaStr).toLocaleDateString(...) for a text the engine cannot
\* read as a date, as are the texts without a YYYY-MM-DD head shown here.
FechaIlegible == "Invalid Date"

\* fechaStr.split('T')[0].split(' ')[0]
FechaSolo(fechaStr) == SplitPrimero(SplitPrimero(fechaStr, "T"), " ")

\* The body shared by MisEntregasPage.formatearFecha and formatearFechaCorta
FormatearCon(meses, fecha) ==
  LET fechaSolo == FechaSolo(fecha)
      year == ParseInt(SubSeq(fechaSolo, 1, 4))
      month == ParseInt(SubSeq(fechaSolo, 6, 7))
      day == ParseInt(SubSeq(fechaSolo, 9, 10))
  IN IF TestFormatoFecha(fechaSolo)
     THEN Str(day) \o " de " \o NombreDeMes(meses, month) \o " de " \o Str(year)
     ELSE FechaIlegible

\* MisEntregasPage.formatearFecha
FormatearFecha(fecha) == FormatearCon(Meses, fecha)

\* MisEntregasPage.formatearFechaCorta
FormatearFechaCorta(fecha) == FormatearCon(MesesCortos, fecha)

\* A day number outside its month moves into the months before or after.
RECURSIVE AjustarDia(_, _, _)
AjustarDia(y, m, d) ==
  IF d < 1
  THEN LET ya == IF m = 1 THEN y - 1 ELSE y
           ma == IF m = 1 THEN 12 ELSE m - 1
       IN AjustarDia(ya, ma, d + DiasDelMes(ya, ma))
  ELSE IF d > DiasDelMes(y, m)
  THEN AjustarDia(IF m = 12 THEN y + 1 ELSE y, IF m = 12 THEN 1 ELSE m + 1,
                  d - DiasDelMes(y, m))
  ELSE [year |-> y, month |-> m, day |-> d]

\* new Date(year, monthIndex, day): a year 0..99 counts from 1900, and a
\* month index or a day out of range carries over.
FechaLocal(year, monthIndex, day) ==
  LET y == (IF year \in 0..99 THEN 1900 + year ELSE year) + (monthIndex \div 12)
  IN AjustarDia(y, (monthIndex % 12) + 1, day)

\* AdminPage.formatearFecha: toLocaleDateString('es-CO', long month) of the
\* local date built from the three numbers
FormatearFechaAdmin(fecha) ==
  LET fechaSolo == IF TestFormatoFecha(fecha) THEN fecha ELSE FechaSolo(fecha)
      fechaLocal == FechaLocal(ParseInt(SubSeq(fechaSolo, 1, 4)),
                               ParseInt(SubSeq(fechaSolo, 6, 7)) - 1,
                               ParseInt(SubSeq(fechaSolo, 9, 10)))
  IN IF TestFormatoFecha(fechaSolo)
     THEN Str(fechaLocal.day) \o " de " \o Meses[fechaLocal.month] \o " de "
            \o Str(fechaLocal.year)
     ELSE FechaIlegible

(***************************************************************************)
(* ProtegerRuta                                                            *)
(***************************************************************************)
\* The pages wrapped in ProtegerRuta; the admin page sets requiereAdmin.
PaginasProtegidas == {"/registro", "/mis-entregas", "/admin"}

\* The component as mounted on a page: useState(true), useState(false), and
\* its effect about to run. montaje numbers the mounted instance.
RutaMontada(pagina, montaje) ==
  [pagina |-> pagina, requiereAdmin |-> (pagina = "/admin"), pc |-> "verificando",
   cargando |-> TRUE, autorizado |-> FALSE, usuario |-> Nulo, destino |-> Nulo,
   montaje |-> montaje]

\* The login page, which has no ProtegerRuta
PaginaDeLogin(montaje) ==
  [pagina |-> "/", requiereAdmin |-> FALSE, pc |-> "publica",
   cargando |-> FALSE, autorizado |-> FALSE, usuario |-> Nulo, destino |-> Nulo,
   montaje |-> montaje]

\* Variant: the administrator check is left out
VerificarSinAdmin(r, usuario) ==
  IF usuario = Nulo
  THEN [r EXCEPT !.pc = "redirigido", !.destino = "/"]
  ELSE [r EXCEPT !.pc = "resuelto", !.usuario = usuario,
                 !.autorizado = TRUE, !.cargando = FALSE]

\* verificarAutenticacion, once obtenerUsuarioActual has resolved to usuario
VerificarAutenticacion(r, usuario) ==
  IF usuario = Nulo
  THEN [r EXCEPT !.pc = "redirigido", !.destino = "/"]
  ELSE IF r.requiereAdmin /\ ~EsAdministrador(EmailDe(usuario))
  THEN [r EXCEPT !.pc = "redirigido", !.usuario = usuario, !.destino = "/registro"]
  ELSE [r EXCEPT !.pc = "resuelto", !.usuario = usuario,
                 !.autorizado = TRUE, !.cargando = FALSE]

\* The component's render: the children, the spinner, or nothing
Renderiza(r) ==
  IF r.cargando THEN "cargando" ELSE IF ~r.autorizado THEN "nada" ELSE "children"

(***************************************************************************)
(* Editing a record in the personal view (MisEntregasPage)                 *)
(***************************************************************************)
\* No save request is in flight.
SinGuardar == [id |-> Nulo, fecha |-> "", factura |-> "", valor |-> ""]

\* cancelarEdicion: the four edit fields emptied; enVuelo is the save whose
\* request is in flight, with the values its call read.
SinEdicion(enVuelo) ==
  [editandoId |-> Nulo, editandoFecha |-> "", editandoFactura |-> "",
   editandoValor |-> "", enVuelo |-> enVuelo]

\* iniciarEdicion
EnEdicion(entrega, enVuelo) ==
  [editandoId |-> entrega.id,
   editandoFecha |-> FechaSolo(entrega.fecha_domicilio),
   editandoFactura |-> entrega.numero_factura,
   editandoValor |-> Str(entrega.valor),
   enVuelo |-> enVuelo]

\* The body guardarEdicion sends; a valor that parses to NaN is sent as null.
CuerpoDeEdicion(g) ==
  [fecha_domicilio |-> g.fecha, numero_factura |-> g.factura,
   valor |-> IF EsNaN(Texto(g.valor)) THEN NoNumero
             ELSE Numero(ParseFloat(Texto(g.valor)).n)]

\* Variant: the edit is left only if it is still the one that was saved
TrasGuardarLaMisma(e) ==
  IF e.editandoId = e.enVuelo.id THEN SinEdicion(SinGuardar)
  ELSE [e EXCEPT !.enVuelo = SinGuardar]

\* guardarEdicion after an ok answer and cargarEntregas: cancelarEdicion()
TrasGuardar(e) == SinEdicion(SinGuardar)

(***************************************************************************)
(* State                                                                   *)
(***************************************************************************)
AdminInicial == [fechaInicio |-> "", fechaFin |-> "", entregas |-> <<>>,
                 totalesPorUserId |-> <<>>]

(***************************************************************************)
(* The reset-password page once its form is shown                          *)
(***************************************************************************)
\* The parameters of a hash or of a query string; "" for one that is absent
Parametros(access, refresh) == [access_token |-> access, refresh_token |-> refresh]

\* window.location.hash (<<>> when empty, else its parameters) and the
\* page's search parameters
Enlace(hash, query) == [hash |-> hash, query |-> query]

SinHash == <<>>

Hash(access, refresh) == <<Parametros(access, refresh)>>

SinEnlace == Enlace(SinHash, Parametros("", ""))

\* useState of ResetPasswordForm, with the client's session, the URL, and
\* the password the last submit sent to supabase.auth.updateUser (Nulo: none)
PaginaDeReset(url, sesion) ==
  [url |-> url, sesion |-> sesion, password |-> "", confirmarPassword |-> "",
   error |-> "", exito |-> FALSE, enviado |-> Nulo]

\* supabase.auth.setSession: only the tokens of a recovery link still in force
SetSession(access, refresh) == access = "rec-ok" /\ refresh = "ref-ok"

\* Variant: the validations of manejarSubmit without the length check
ValidacionSinLongitud(password, confirmarPassword) ==
  IF password = "" \/ confirmarPassword = ""
  THEN "Todos los campos son obligatorios"
  ELSE IF password # confirmarPassword
       THEN "Las contraseñas no coinciden"
       ELSE ""

\* manejarSubmit, validations: the message of the first that fails, "" if none
Validacion(password, confirmarPassword) ==
  IF password = "" \/ confirmarPassword = ""
  THEN "Todos los campos son obligatorios"
  ELSE IF Len(password) < 6
       THEN "La contraseña debe tener al menos 6 caracteres"
       ELSE IF password # confirmarPassword
            THEN "Las contraseñas no coinciden"
            ELSE ""

\* manejarSubmit, the tokens used as fallback: of the hash when there is a
\* hash, of the search parameters otherwise
TokensDeRespaldo(url) == IF url.hash # SinHash THEN url.hash[1] ELSE url.query

\* manejarSubmit, session check: "" when a session is active or was set from
\* the fallback tokens, else the message thrown
ErrorDeSesion(r) ==
  IF r.sesion
  THEN ""
  ELSE IF TokensDeRespaldo(r.url).access_token # "" /\ TokensDeRespaldo(r.url).refresh_token # ""
       THEN IF SetSession(TokensDeRespaldo(r.url).access_token, TokensDeRespaldo(r.url).refresh_token)
            THEN ""
            ELSE "Token inválido o expirado. Por favor, solicita un nuevo enlace de recuperación."
       ELSE "No hay sesión activa. Por favor, usa el enlace de recuperación que se envió a tu correo."

\* manejarSubmit as a whole: the page after the submit; config is whether
\* obtenerClienteSupabase gives a client, updateError the answer to updateUser
ResultadoSubmitReset(r, config, updateError) ==
  LET limpio == [r EXCEPT !.error = "", !.exito = FALSE, !.enviado = Nulo]
  IN IF Validacion(r.password, r.confirmarPassword) # ""
     THEN [limpio EXCEPT !.error = Validacion(r.password, r.confirmarPassword)]
     ELSE IF ~config
          THEN [limpio EXCEPT !.error = "Error de configuración"]
          ELSE IF ErrorDeSesion(r) # ""
               THEN [limpio EXCEPT !.error = ErrorDeSesion(r)]
               ELSE IF updateError # ""
                    THEN [limpio EXCEPT !.error = updateError, !.sesion = TRUE,
                                        !.enviado = r.password]
                    ELSE [limpio EXCEPT !.exito = TRUE, !.sesion = FALSE,
                                        !.enviado = r.password,
                                        !.url = Enlace(SinHash, r.url.query)]

Init ==
  /\ entregas = {}
  /\ resp = Respuesta("", 0, "", "")
  /\ adminPc = "inactivo"
  /\ admin = AdminInicial
  /\ registro = [fechaDomicilio |-> "", error |-> "", exito |-> FALSE]
  /\ vista = [entregas |-> <<>>, fechaInicio |-> "", fechaFin |-> ""]
  /\ pantalla = [fecha |-> "", larga |-> "", corta |-> "", admin |-> ""]
  /\ suma = [centavos |-> <<>>, duenos |-> <<>>, totales |-> <<>>, total |-> Cero]
  /\ sesionActual = Nulo
  /\ ruta = PaginaDeLogin(0)
  /\ edicion = SinEdicion(SinGuardar)
  /\ reset = PaginaDeReset(SinEnlace, FALSE)

(***************************************************************************)
(* Actions                                                                 *)
(***************************************************************************)
\* POST /api/entregas
Post(req, body, id, ahora) ==
  LET r == ResultadoPost(entregas, req, body, id, ahora)
  IN /\ Cardinality(r.tabla) <= MaxEntregas
     /\ entregas' = r.tabla
     /\ resp' = r.resp
     /\ UNCHANGED <<adminPc, admin, registro, vista, paginas>>

\* PUT /api/entregas/[id]
Put(req, entregaId, body) ==
  LET r == ResultadoPut(entregas, req, entregaId, body)
  IN /\ entregas' = r.tabla
     /\ resp' = r.resp
     /\ UNCHANGED <<adminPc, admin, registro, vista, paginas>>

\* DELETE /api/entregas/[id]
Delete(req, entregaId) ==
  LET r == ResultadoDelete(entregas, req, entregaId)
  IN /\ entregas' = r.tabla
     /\ resp' = r.resp
     /\ UNCHANGED <<adminPc, admin, registro, vista, paginas>>

\* The registration form is submitted.
ManejarSubmit(sesion, fechaDomicilio, numeroFactura, valor, id, ahora) ==
  LET r == ResultadoSubmit(entregas, sesion, fechaDomicilio, numeroFactura, valor, id, ahora)
  IN /\ Cardinality(r.tabla) <= MaxEntregas
     /\ entregas' = r.tabla
     /\ resp' = IF r.enviada THEN r.resp ELSE resp
     /\ registro' = r.registro
     /\ UNCHANGED <<adminPc, admin, vista, paginas>>

\* GET /api/admin/entregas, up to its first query (obtenerEntregasPorRangoFechas)
AdminGetInicio(req, fechaInicio, fechaFin) ==
  LET usuario == ObtenerUsuarioDesdeRequest(req)
  IN /\ adminPc = "inactivo"
     /\ IF usuario = Nulo
        THEN /\ resp' = Respuesta("GET_ADMIN", 401, "No autorizado", "")
             /\ UNCHANGED <<adminPc, admin>>
        ELSE IF ~EsAdministrador(EmailDe(usuario))
        THEN /\ resp' = Respuesta("GET_ADMIN", 403, "Acceso denegado", "")
             /\ UNCHANGED <<adminPc, admin>>
        ELSE IF Falsy(fechaInicio) \/ Falsy(fechaFin)
        THEN /\ resp' = Respuesta("GET_ADMIN", 400,
                                  "Las fechas de inicio y fin son obligatorias", "")
             /\ UNCHANGED <<adminPc, admin>>
        ELSE /\ \E l \in ObtenerEntregasPorRangoFechas(entregas, fechaInicio, fechaFin) :
                  admin' = [fechaInicio |-> fechaInicio, fechaFin |-> fechaFin,
                            entregas |-> l, totalesPorUserId |-> <<>>]
             /\ adminPc' = "totales"
             /\ resp' = Respuesta("GET_ADMIN", 0, "", "")
     /\ UNCHANGED <<entregas, registro, vista, paginas>>

\* ... its second query (calcularTotalesPorUsuario)
AdminGetTotales ==
  /\ adminPc = "totales"
  /\ \E l \in ObtenerEntregasPorRangoFechas(entregas, admin.fechaInicio, admin.fechaFin) :
        admin' = [admin EXCEPT !.totalesPorUserId = CalcularTotalesPorUsuario(l)]
  /\ adminPc' = "total"
  /\ UNCHANGED <<entregas, resp, registro, vista, paginas>>

\* mapaUsuarios.get(user_id) || 'Usuario desconocido': the map holds the users
\* of the rows of the first query.
EmailEnMapa(leidas, user_id) ==
  IF \E i \in 1..Len(leidas) : leidas[i].user_id = user_id
  THEN EmailDe(user_id)
  ELSE "Usuario desconocido"

\* ... its third query (calcularTotalGeneral) and the response
AdminGetTotal ==
  /\ adminPc = "total"
  /\ \E l \in ObtenerEntregasPorRangoFechas(entregas, admin.fechaInicio, admin.fechaFin) :
        resp' = RespuestaReporte("GET_ADMIN", 200,
                  [entregas |-> [i \in 1..Len(admin.entregas) |->
                                   [entrega |-> admin.entregas[i],
                                    usuario_email |->
                                      EmailEnMapa(admin.entregas, admin.entregas[i].user_id)]],
                   totales_por_usuario |->
                     [i \in 1..Len(admin.totalesPorUserId) |->
                        [usuario_email |->
                           EmailEnMapa(admin.entregas, admin.totalesPorUserId[i].user_id),
                         total |-> admin.totalesPorUserId[i].total]],
                   total_general |-> CalcularTotalGeneral(l),
                   debug |-> [fechaInicio |-> admin.fechaInicio,
                              fechaFin |-> admin.fechaFin]])
  /\ adminPc' = "inactivo"
  /\ admin' = AdminInicial
  /\ UNCHANGED <<entregas, registro, vista, paginas>>

\* GET /api/entregas for any request; the answered list is kept in the
\* response's entrega field.
Get(req) ==
  /\ \E l \in ResultadoGet(entregas, req).listas :
        resp' = [Respuesta("GET", ResultadoGet(entregas, req).status,
                           IF ResultadoGet(entregas, req).status = 401
                           THEN "No autorizado" ELSE "", "")
                   EXCEPT !.entrega = l]
  /\ UNCHANGED <<entregas, adminPc, admin, registro, vista, paginas>>

\* MisEntregasPage.cargarEntregas: GET /api/entregas with the session's token
CargarEntregas(sesion) ==
  LET req == [authorization |-> IF sesion.access_token # Nulo
                                THEN "Bearer " \o sesion.access_token ELSE Nulo,
              cookieAccess |-> Nulo, cookieRefresh |-> Nulo]
      usuario == ObtenerUsuarioDesdeRequest(req)
  IN /\ IF usuario = Nulo
        THEN /\ resp' = Respuesta("GET", 401, "No autorizado", "")
             /\ UNCHANGED vista
        ELSE /\ resp' = Respuesta("GET", 200, "", "")
             /\ \E l \in ObtenerEntregasPorUsuario(entregas, usuario, AccessTokenDeHeader(req)) :
                   vista' = [vista EXCEPT !.entregas = l]
     /\ UNCHANGED <<entregas, adminPc, admin, registro, paginas>>

\* The record pages render a record's fecha_domicilio.
Mostrar(fecha) ==
  /\ pantalla' = [fecha |-> fecha, larga |-> FormatearFecha(fecha),
                  corta |-> FormatearFechaCorta(fecha),
                  admin |-> FormatearFechaAdmin(fecha)]
  /\ UNCHANGED <<peticiones, suma, sesionActual, ruta, edicion, reset>>

\* totalesMap.set(userId, (totalesMap.get(userId) || 0) + valor), the map as
\* its entries in insertion order
TotalesMapSet(totales, userId, valor) ==
  IF \E i \in 1..Len(totales) : totales[i].user_id = userId
  THEN [i \in 1..Len(totales) |->
          IF totales[i].user_id = userId
          THEN [totales[i] EXCEPT !.total = SumarDoble(@, valor)]
          ELSE totales[i]]
  ELSE Append(totales, [user_id |-> userId, total |-> SumarDoble(Cero, valor)])

\* One step of the forEach of calcularTotalesPorUsuario and of the reduce of
\* calcularTotalGeneral over one list of rows: the amount of the next row,
\* of user u and c hundredths, is added to u's total and to the grand total.
SumarValor(u, c) ==
  /\ Len(suma.centavos) < MaxSumandos
  /\ suma' = [centavos |-> Append(suma.centavos, c),
              duenos |-> Append(suma.duenos, u),
              totales |-> TotalesMapSet(suma.totales, u, DobleDeCentavos(c)),
              total |-> SumarDoble(suma.total, DobleDeCentavos(c))]
  /\ UNCHANGED <<peticiones, pantalla, sesionActual, ruta, edicion, reset>>

\* iniciarSesion: the browser's session becomes the one of user u.
IniciarSesion(u) ==
  /\ sesionActual = Nulo
  /\ sesionActual' = u
  /\ UNCHANGED <<peticiones, pantalla, suma, ruta, edicion, reset>>

\* cerrarSesion
CerrarSesion ==
  /\ sesionActual # Nulo
  /\ sesionActual' = Nulo
  /\ UNCHANGED <<peticiones, pantalla, suma, ruta, edicion, reset>>

\* The browser opens a page wrapped in ProtegerRuta.
AbrirPagina(pagina) ==
  /\ ruta.montaje < MaxMontajes
  /\ ruta' = RutaMontada(pagina, ruta.montaje + 1)
  /\ UNCHANGED <<peticiones, pantalla, suma, sesionActual, edicion, reset>>

\* The effect of ProtegerRuta: obtenerUsuarioActual resolves to the user of
\* the session, and verificarAutenticacion goes on from there.
EfectoVerificar ==
  /\ ruta.pc = "verificando"
  /\ ruta' = VerificarAutenticacion(ruta, sesionActual)
  /\ UNCHANGED <<peticiones, pantalla, suma, sesionActual, edicion, reset>>

\* The navigation asked for by router.push takes place.
SeguirRedireccion ==
  /\ ruta.pc = "redirigido"
  /\ ruta.montaje < MaxMontajes
  /\ ruta' = IF ruta.destino = "/" THEN PaginaDeLogin(ruta.montaje + 1)
             ELSE RutaMontada(ruta.destino, ruta.montaje + 1)
  /\ UNCHANGED <<peticiones, pantalla, suma, sesionActual, edicion, reset>>

\* The user presses Editar on a listed record.
IniciarEdicion(i) ==
  /\ i \in 1..Len(vista.entregas)
  /\ edicion' = EnEdicion(vista.entregas[i], edicion.enVuelo)
  /\ UNCHANGED <<peticiones, pantalla, suma, sesionActual, ruta, reset>>

\* The user types another date into the edit field.
CambiarFechaEditada(fecha) ==
  /\ edicion.editandoId # Nulo
  /\ edicion' = [edicion EXCEPT !.editandoFecha = fecha]
  /\ UNCHANGED <<peticiones, pantalla, suma, sesionActual, ruta, reset>>

\* The user presses Cancelar.
CancelarEdicion ==
  /\ edicion.editandoId # Nulo
  /\ edicion' = SinEdicion(edicion.enVuelo)
  /\ UNCHANGED <<peticiones, pantalla, suma, sesionActual, ruta, reset>>

\* guardarEdicion up to its fetch: the PUT for the record being edited is
\* sent with the values of the edit fields.
GuardarEdicion ==
  /\ edicion.editandoId # Nulo
  /\ edicion.enVuelo.id = Nulo
  /\ edicion' = [edicion EXCEPT !.enVuelo =
                   [id |-> edicion.editandoId, fecha |-> edicion.editandoFecha,
                    factura |-> edicion.editandoFactura, valor |-> edicion.editandoValor]]
  /\ UNCHANGED <<peticiones, pantalla, suma, sesionActual, ruta, reset>>

\* guardarEdicion from the answer of its fetch on: the server handles the
\* PUT; after an ok answer the page reloads the list and leaves edit mode,
\* after another answer it shows the error.
GuardarCompleta(sesion) ==
  LET put == ResultadoPut(entregas, PeticionDeSesion(sesion), edicion.enVuelo.id,
                          CuerpoDeEdicion(edicion.enVuelo))
  IN /\ edicion.enVuelo.id # Nulo
     /\ entregas' = put.tabla
     /\ IF put.resp.status = 200
        THEN /\ resp' = Respuesta("GET", 200, "", "")
             /\ \E l \in ObtenerEntregasPorUsuario(put.tabla,
                           ObtenerUsuarioDesdeRequest(PeticionDeSesion(sesion)),
                           sesion.access_token) :
                   vista' = [vista EXCEPT !.entregas = l]
             /\ edicion' = TrasGuardar(edicion)
        ELSE /\ resp' = put.resp
             /\ edicion' = [edicion EXCEPT !.enVuelo = SinGuardar]
             /\ UNCHANGED vista
     /\ UNCHANGED <<adminPc, admin, registro, pantalla, suma, sesionActual, ruta, reset>>

\* The page's two date inputs are set.
CambiarFiltro(fechaInicio, fechaFin) ==
  /\ vista' = [vista EXCEPT !.fechaInicio = fechaInicio, !.fechaFin = fechaFin]
  /\ UNCHANGED <<entregas, resp, adminPc, admin, registro, paginas>>

(***************************************************************************)
(* Requests and inputs                                                     *)
(***************************************************************************)
PeticionBearer(token) ==
  [authorization |-> "Bearer " \o token, cookieAccess |-> Nulo, cookieRefresh |-> Nulo]

PeticionAnonima == [authorization |-> Nulo, cookieAccess |-> Nulo, cookieRefresh |-> Nulo]

SesionDe(u) == [access_token |-> "tok-" \o u, refresh_token |-> "ref-" \o u]

Cuerpo(fecha, factura, valor) ==
  [fecha_domicilio |-> fecha, numero_factura |-> factura, valor |-> valor]

\* Date texts: a core, canonical or not, between optional blanks and before
\* an optional time suffix.
Nucleos ==
  {"2024-03-10", "2024-01-05", "2024-3-1", "15/03/2024", "", "2024-13-45", "2024-03-101"}

Sufijos == {"", "T00:00:00Z", " 14:30:00", " T1", "\tT1"}

\* Blanks around the text: none, or a blank before and blanks after.
Margenes == {<<"", "">>, <<" ", " \t">>}

FechasEntrada ==
  {m[1] \o n \o s \o m[2] : m \in Margenes, n \in Nucleos, s \in Sufijos}

\* A few date texts: canonical, with a time, and malformed.
FechasMuestra == {"2024-03-10", "2024-01-05T00:00:00Z", "15/03/2024", ""}

(***************************************************************************)
(* SpecFechas: one user's create and update requests over every date text  *)
(***************************************************************************)
NextFechas ==
  \/ \E f \in FechasEntrada, req \in {PeticionBearer("tok-ana"), PeticionAnonima} :
        Post(req, Cuerpo(f, "F-1", Numero(100)), "e1", "t1")
  \/ \E f \in FechasEntrada, req \in {PeticionBearer("tok-ana"), PeticionAnonima} :
        Put(req, "e1", Cuerpo(f, "F-2", Numero(50)))

SpecFechas == Init /\ [][NextFechas]_vars

(***************************************************************************)
(* SpecRegistro: the registration form over every date text, beside a few  *)
(* direct requests                                                         *)
(***************************************************************************)
NextRegistro ==
  \/ \E f \in FechasEntrada :
        ManejarSubmit(SesionDe("ana"), f, "F-1", Texto("100"), "e1", "t1")
  \/ \E f \in FechasMuestra :
        Post(PeticionBearer("tok-ana"), Cuerpo(f, "F-1", Numero(100)), "e1", "t1")
  \/ \E f \in FechasMuestra :
        Put(PeticionBearer("tok-ana"), "e1", Cuerpo(f, "F-2", Numero(50)))

SpecRegistro == Init /\ [][NextRegistro]_vars

(***************************************************************************)
(* Spec: two users' requests and the administrator's report, one request   *)
(* at a time                                                               *)
(***************************************************************************)
Ids == {"e1", "e2", "e3"}

Valores == {50, 100}

\* fecha_inicio and fecha_fin of a report: a range, one day, a range given
\* with a time, an inverted range, a missing bound.
Rangos ==
  {<<"2024-01-01", "2024-01-05">>, <<"2024-01-05", "2024-01-05">>,
   <<"2024-01-01T00:00:00", "2024-01-01T23:59:59">>,
   <<"2024-01-05", "2024-01-01">>, <<"", "2024-01-05">>}

Peticiones == {PeticionBearer("tok-ana"), PeticionBearer("tok-luis"), PeticionAnonima}

\* The deliveries the two users submit: user, date, value.
Muestras ==
  {<<"ana", "2024-01-01", 100>>, <<"ana", "2024-01-05", 50>>,
   <<"luis", "2024-01-05", 100>>, <<"luis", "2024-01-05", 50>>,
   <<"luis", "2024-01-01", 50>>}

Crear ==
  \E m \in Muestras, id \in Ids :
     Post(PeticionBearer("tok-" \o m[1]), Cuerpo(m[2], "F-1", Numero(m[3])), id, "t1")

Actualizar ==
  \E m \in Muestras, id \in Ids :
     Put(PeticionBearer("tok-" \o m[1]), id, Cuerpo(m[2], "F-2", Numero(m[3])))

Eliminar ==
  \E u \in Usuarios, id \in Ids : Delete(PeticionBearer("tok-" \o u), id)

Consultar ==
  \E req \in Peticiones, r \in Rangos : AdminGetInicio(req, r[1], r[2])

Next ==
  \/ adminPc = "inactivo" /\ Crear
  \/ adminPc = "inactivo" /\ Actualizar
  \/ adminPc = "inactivo" /\ Eliminar
  \/ Consultar
  \/ AdminGetTotales
  \/ AdminGetTotal

Spec == Init /\ [][Next]_vars

(***************************************************************************)
(* SpecConcurrente: the report's three queries interleaved with the other  *)
(* requests                                                                *)
(***************************************************************************)
CrearConcurrente ==
  \E v \in Valores, id \in {"e1", "e2"} :
     Post(PeticionBearer("tok-luis"), Cuerpo("2024-01-05", "F-1", Numero(v)), id, "t1")

ActualizarConcurrente ==
  \E v \in Valores, id \in {"e1", "e2"} :
     Put(PeticionBearer("tok-luis"), id, Cuerpo("2024-01-05", "F-2", Numero(v)))

EliminarConcurrente ==
  \E id \in {"e1", "e2"} : Delete(PeticionBearer("tok-luis"), id)

ConsultarConcurrente ==
  AdminGetInicio(PeticionBearer("tok-ana"), "2024-01-01", "2024-01-05")

NextConcurrente ==
  \/ CrearConcurrente
  \/ ActualizarConcurrente
  \/ EliminarConcurrente
  \/ ConsultarConcurrente
  \/ AdminGetTotales
  \/ AdminGetTotal

SpecConcurrente == Init /\ [][NextConcurrente]_vars

(***************************************************************************)
(* SpecRango: one user's rows over three dates, the report and the         *)
(* personal page with its date filter                                      *)
(***************************************************************************)
FechasRango == {"2024-01-01", "2024-01-05", "2024-01-10"}

\* Bounds of a report or of the page's filter.
Intervalos ==
  {<<"2024-01-01", "2024-01-05">>, <<"2024-01-05", "2024-01-05">>,
   <<"2024-01-05", "2024-01-10">>, <<"2024-01-10", "2024-01-01">>}

CrearRango ==
  \E f \in FechasRango, id \in {"e1", "e2"} :
     Post(PeticionBearer("tok-ana"), Cuerpo(f, "F-1", Numero(50)), id, "t1")

EliminarRango ==
  \E id \in {"e1", "e2"} : Delete(PeticionBearer("tok-ana"), id)

ConsultarRango ==
  \E r \in Intervalos : AdminGetInicio(PeticionBearer("tok-ana"), r[1], r[2])

Listar == CargarEntregas(SesionDe("ana"))

Filtrar == \E r \in Intervalos \cup {<<"", "">>} : CambiarFiltro(r[1], r[2])

NextRango ==
  \/ adminPc = "inactivo" /\ CrearRango
  \/ adminPc = "inactivo" /\ EliminarRango
  \/ ConsultarRango
  \/ AdminGetTotales
  \/ AdminGetTotal
  \/ adminPc = "inactivo" /\ Listar
  \/ Filtrar

SpecRango == Init /\ [][NextRango]_vars

(***************************************************************************)
(* SpecValidacion: create, update and delete requests with every kind of   *)
(* valor and numero_factura, from callers with and without credentials     *)
(***************************************************************************)
\* A request that carries only the sb-refresh-token cookie.
PeticionCookie(refresh) ==
  [authorization |-> Nulo, cookieAccess |-> Nulo, cookieRefresh |-> refresh]

PeticionesUsuario ==
  {PeticionBearer("tok-ana"), PeticionBearer("tok-luis"), PeticionAnonima,
   PeticionCookie("ref-luis")}

\* A body that also carries a user_id field (Nulo: the field is absent).
CuerpoCon(fecha, factura, valor, user_id) ==
  [fecha_domicilio |-> fecha, numero_factura |-> factura, valor |-> valor,
   user_id |-> user_id]

ValoresCuerpo ==
  {Numero(100), Numero(0), Numero(0 - 5), Texto("12abc"), Texto("abc"), Indefinido}

FacturasCuerpo == {"F-1", " F-2 \t", " ", ""}

\* Bodies for the date fecha: each valor, each numero_factura, and one that
\* names another user as the owner.
CuerposValidacion(fecha) ==
  {CuerpoCon(fecha, "F-1", v, Nulo) : v \in ValoresCuerpo}
    \cup {CuerpoCon(fecha, f, Numero(100), Nulo) : f \in FacturasCuerpo}
    \cup {CuerpoCon(fecha, "F-3", Numero(100), "luis")}

\* The id and the creation time that Date.now() gives a creation.
Momentos == {<<"e1", "t1">>, <<"e2", "t2">>}

CrearValidacion ==
  \E req \in PeticionesUsuario, body \in CuerposValidacion("2024-01-05"), m \in Momentos :
     Post(req, body, m[1], m[2])

ActualizarValidacion ==
  \E req \in PeticionesUsuario, body \in CuerposValidacion("2024-01-01"), m \in Momentos :
     Put(req, m[1], body)

EliminarValidacion ==
  \E req \in PeticionesUsuario, m \in Momentos : Delete(req, m[1])

NextValidacion ==
  \/ CrearValidacion
  \/ ActualizarValidacion
  \/ EliminarValidacion

SpecValidacion == Init /\ [][NextValidacion]_vars

(***************************************************************************)
(* Specification: two users' records and the requests of luis, who is not  *)
(* an administrator                                                        *)
(***************************************************************************)
FechasListado == {"2024-01-05", "2024-02-10"}

CrearListado ==
  \E u \in Usuarios, f \in FechasListado, id \in {"e1", "e2"} :
     Post(PeticionBearer("tok-" \o u), Cuerpo(f, "F-1", Numero(50)), id, "t1")

EliminarListado ==
  \E u \in Usuarios, id \in {"e1", "e2"} : Delete(PeticionBearer("tok-" \o u), id)

ListarListado == \E sesion \in {SesionDe("luis"), SinSesion} : CargarEntregas(sesion)

ConsultarListado == AdminGetInicio(PeticionBearer("tok-luis"), "2024-01-01", "2024-12-31")

NextListado ==
  \/ CrearListado
  \/ EliminarListado
  \/ ListarListado
  \/ ConsultarListado

SpecListado == Init /\ [][NextListado]_vars

(***************************************************************************)
(* Specification: the admin range endpoint under every kind of caller and  *)
(* of range                                                                *)
(***************************************************************************)
\* ana is an administrator, luis is not, eva has no email; the last caller
\* sends no credentials.
PeticionesAdmin ==
  {PeticionBearer("tok-ana"), PeticionBearer("tok-luis"), PeticionBearer("tok-eva"),
   PeticionAnonima}

\* fecha_inicio and fecha_fin of the query string; '' is an absent parameter.
RangosAdmin ==
  {<<"2024-01-01", "2024-12-31">>, <<"2024-01-05T00:00:00", "2024-01-05">>,
   <<"15/03/2024", "2024-12-31">>, <<"2024-01-01", "2024-1-5">>, <<"", "2024-01-05">>}

CrearAdmin ==
  \E u \in Usuarios, id \in {"e1", "e2"} :
     Post(PeticionBearer("tok-" \o u), Cuerpo("2024-01-05", "F-1", Numero(50)), id, "t1")

ConsultarAdmin ==
  \E req \in PeticionesAdmin, r \in RangosAdmin : AdminGetInicio(req, r[1], r[2])

NextAdmin ==
  \/ CrearAdmin
  \/ ConsultarAdmin
  \/ AdminGetTotales
  \/ AdminGetTotal

SpecAdmin == Init /\ [][NextAdmin]_vars

(***************************************************************************)
(* Specification: the pages render date texts                              *)
(***************************************************************************)
AniosPantalla == {"0099", "1999", "2024", "2100"}

MesesPantalla == {"01", "02", "03", "04", "06", "09", "10", "11", "12"}

DiasPantalla == {"01", "09", "10", "28", "29", "30", "31"}

\* Canonical texts, some with a time, and texts that are no date.
FechasPantalla ==
  {a \o "-" \o m \o "-" \o d : a \in AniosPantalla, m \in MesesPantalla, d \in DiasPantalla}
    \cup {"2024-01-05T00:00:00Z", "2024-12-31 23:59:59", "2024-13-05", "15/03/2024", "hoy"}

NextFormato == \E f \in FechasPantalla : Mostrar(f)

SpecFormato == Init /\ [][NextFormato]_vars

(***************************************************************************)
(* Specification: totals of amounts with decimals                          *)
(***************************************************************************)
\* Amounts in hundredths: 0.05, 0.10, 0.20, 0.30, 1.00 and 2.00
CentavosMuestra == {5, 10, 20, 30, 100, 200}

NextDecimal == \E u \in Usuarios, c \in CentavosMuestra : SumarValor(u, c)

SpecDecimal == Init /\ [][NextDecimal]_vars

(***************************************************************************)
(* Specification: the guarded pages, under sessions that come and go       *)
(***************************************************************************)
NextRuta ==
  \/ \E u \in {"ana", "luis", "eva"} : IniciarSesion(u)
  \/ CerrarSesion
  \/ \E pagina \in PaginasProtegidas : AbrirPagina(pagina)
  \/ EfectoVerificar
  \/ SeguirRedireccion

SpecRuta == Init /\ [][NextRuta]_vars

(***************************************************************************)
(* Specification: ana edits her records in the personal view               *)
(***************************************************************************)
CrearEdicion ==
  \E id \in {"e1", "e2"} :
     Post(PeticionBearer("tok-ana"), Cuerpo("2024-01-05", "F-1", Numero(50)), id, "t1")

ListarEdicion == CargarEntregas(SesionDe("ana"))

NextEdicion ==
  \/ CrearEdicion
  \/ ListarEdicion
  \/ \E i \in 1..MaxEntregas : IniciarEdicion(i)
  \/ \E f \in {"2024-02-10", "10/02/2024"} : CambiarFechaEditada(f)
  \/ CancelarEdicion
  \/ GuardarEdicion
  \/ GuardarCompleta(SesionDe("ana"))

SpecEdicion == Init /\ [][NextEdicion]_vars

(***************************************************************************)
(* Actions of the reset-password page                                      *)
(***************************************************************************)
\* The page is opened at a URL and shows its form; the client may or may not
\* hold a session by then
AbrirEnlace(url, sesion) ==
  /\ reset' = PaginaDeReset(url, sesion)
  /\ UNCHANGED <<peticiones, pantalla, suma, sesionActual, ruta, edicion>>

\* onChange of the password input
EscribirPassword(p) ==
  /\ ~reset.exito
  /\ reset' = [reset EXCEPT !.password = p]
  /\ UNCHANGED <<peticiones, pantalla, suma, sesionActual, ruta, edicion>>

\* onChange of the confirmation input
EscribirConfirmacion(p) ==
  /\ ~reset.exito
  /\ reset' = [reset EXCEPT !.confirmarPassword = p]
  /\ UNCHANGED <<peticiones, pantalla, suma, sesionActual, ruta, edicion>>

\* ResetPasswordForm.manejarSubmit; the form is replaced by the success
\* message once exito is set
ManejarSubmitReset(config, updateError) ==
  /\ ~reset.exito
  /\ reset' = ResultadoSubmitReset(reset, config, updateError)
  /\ UNCHANGED <<peticiones, pantalla, suma, sesionActual, ruta, edicion>>

(***************************************************************************)
(* Specification: the reset-password form                                  *)
(***************************************************************************)
\* URLs: none; a recovery link's hash in force, expired, and without its
\* refresh token; a hash without tokens over a query that has them; tokens
\* in the query only
EnlacesDeReset ==
  { SinEnlace,
    Enlace(Hash("rec-ok", "ref-ok"), Parametros("", "")),
    Enlace(Hash("rec-viejo", "ref-viejo"), Parametros("", "")),
    Enlace(Hash("rec-ok", ""), Parametros("", "")),
    Enlace(Hash("", ""), Parametros("rec-ok", "ref-ok")),
    Enlace(SinHash, Parametros("rec-ok", "ref-ok")) }

\* Entries: empty, one short of six characters, six, and more
Contrasenas == {"", "abcde", "abcdef", "secreta1"}

\* Answers of supabase.auth.updateUser: accepted, or rejected with a message
ErroresDeUpdate == {"", "New password should be different from the old password."}

NextReset ==
  \/ \E url \in EnlacesDeReset, sesion \in BOOLEAN : AbrirEnlace(url, sesion)
  \/ \E p \in Contrasenas : EscribirPassword(p)
  \/ \E p \in Contrasenas : EscribirConfirmacion(p)
  \/ \E config \in BOOLEAN, updateError \in ErroresDeUpdate : ManejarSubmitReset(config, updateError)

SpecReset == Init /\ [][NextReset]_vars

(***************************************************************************)
(* Specification: requests with every mix of header and cookies            *)
(***************************************************************************)
\* Authorization headers: none, of ana, of a token that is no longer
\* honoured, with an empty token, and of another scheme.
Cabeceras == {Nulo, "Bearer tok-ana", "Bearer tok-viejo", "Bearer ", "Basic abc"}

\* Requests that carry luis's two cookies, both honoured, under each header
PeticionesConCookies ==
  {[authorization |-> h, cookieAccess |-> "tok-luis", cookieRefresh |-> "ref-luis"] :
     h \in Cabeceras}

\* Requests with every mix of header, access cookie and refresh cookie
PeticionesMixtas ==
  {[authorization |-> h, cookieAccess |-> a, cookieRefresh |-> r] :
     h \in Cabeceras, a \in {Nulo, "tok-luis", "tok-viejo"},
     r \in {Nulo, "ref-luis", "ref-viejo"}}

CrearCredenciales ==
  \E req \in PeticionesConCookies \cup {PeticionBearer("tok-luis")},
     f \in FechasListado, id \in {"e1", "e2"} :
       Post(req, Cuerpo(f, "F-1", Numero(50)), id, "t1")

EliminarCredenciales ==
  \E req \in PeticionesConCookies, id \in {"e1", "e2"} : Delete(req, id)

ListarCredenciales == \E req \in PeticionesConCookies : Get(req)

NextCredenciales ==
  \/ CrearCredenciales
  \/ EliminarCredenciales
  \/ ListarCredenciales

SpecCredenciales == Init /\ [][NextCredenciales]_vars

(***************************************************************************)
(* Properties: date normalization                                          *)
(***************************************************************************)
\* The part of t before its first 'T' or space, whichever comes first.
AntesDeHora(t) ==
  LET cortes == {k \in 1..Len(t) : Car(t, k) \in {"T", " "}}
  IN IF cortes = {} THEN t
     ELSE SubSeq(t, 1, (CHOOSE k \in cortes : \A j \in cortes : k <= j) - 1)

\* Trim, cut at the first 'T' or space, accept on the pattern.
NormalizacionEsperada(x) ==
  LET r == AntesDeHora(Trim(x))
  IN [ok |-> TestFormatoFecha(r), fecha |-> r]

\* Trim, cut at the first 'T' if there is one, otherwise at the first space,
\* accept on the pattern.
NormalizacionDescrita(x) ==
  LET t == Trim(x)
      r == IF Includes(t, "T") THEN SplitPrimero(t, "T")
           ELSE IF Includes(t, " ") THEN SplitPrimero(t, " ")
           ELSE t
  IN [ok |-> TestFormatoFecha(r), fecha |-> r]

\* The last response answers a create or update whose request passed the
\* checks that precede the date normalization.
LlegoALaFecha ==
  /\ resp.op \in {"POST", "PUT"}
  /\ resp.error \notin {"No autorizado", "Todos los campos son obligatorios",
                        "El valor debe ser un numero mayor a cero",
                        "El numero de factura no puede estar vacio"}

\* Both normalizations compute N on every date text, and the handlers answer
\* by it: the invalid-date error exactly when N rejects, else N's date stored.
SegunNormalizacion(N(_)) ==
  /\ \A x \in FechasEntrada :
        NormalizarFechaCrear(x) = N(x) /\ NormalizarFechaPut(x) = N(x)
  /\ LlegoALaFecha =>
        /\ (resp.error = MensajeFechaInvalida(resp.fecha)) <=> ~N(resp.fecha).ok
        /\ resp.entrega # <<>> => resp.entrega[1].fecha_domicilio = N(resp.fecha).fecha

\* C1 (as amended): on the create and the update path the normalization is:
\* trim; keep the part before the first 'T' or space, whichever comes first
\* (the space cut is applied after the 'T' cut, not instead of it); accept
\* iff the remainder matches ^\d{4}-\d{2}-\d{2}$, with no calendar check, and
\* the remainder is the stored date.
C1_Normalizacion == SegunNormalizacion(NormalizacionEsperada)

\* C1 as stated: the space cut happens only when the text holds no 'T'.
C1_SegunEnunciado == SegunNormalizacion(NormalizacionDescrita)

\* A create whose date has a space before its 'T' stored the date.
C1_Testigo ==
  /\ resp.op = "POST"
  /\ resp.status = 201
  /\ resp.fecha = "2024-03-10 T1"
  /\ resp.entrega[1].fecha_domicilio = "2024-03-10"

\* crearEntrega called with a date text it rejects: the invalid-date error is
\* thrown and the table is as before.
CrearEntregaRechaza ==
  \A x \in FechasEntrada :
     ~NormalizarFechaCrear(x).ok =>
        LET c == CrearEntrega(entregas, "ana", x, "F-1", 100, "tok-ana", "e1", "t1")
        IN ~c.ok /\ c.error = MensajeFechaInvalida(x) /\ c.tabla = entregas

\* A create or update request whose date text is rejected leaves the table
\* as it was and is answered with an error: the invalid-date error, unless
\* the request is unauthenticated (401) or its date is the empty string,
\* which the handlers answer with the required-fields error.
RechazoSinCambio ==
  (resp'.op \in {"POST", "PUT"} /\ ~NormalizacionEsperada(resp'.fecha).ok) =>
     /\ entregas' = entregas
     /\ resp'.entrega = <<>>
     /\ resp'.status \in {400, 401, 500}
     /\ resp'.status = 401 => resp'.error = "No autorizado"
     /\ (resp'.status # 401 /\ resp'.fecha = "") =>
           resp'.error = "Todos los campos son obligatorios"
     /\ (resp'.status # 401 /\ resp'.fecha # "") =>
           resp'.error = MensajeFechaInvalida(resp'.fecha)

C3_MensajeConValor ==
  /\ (LlegoALaFecha /\ ~NormalizacionEsperada(resp.fecha).ok) =>
        Contiene(resp.error, resp.fecha)
  /\ (/\ registro.error \notin {"", "Todos los campos son obligatorios",
                                "El valor debe ser un numero mayor a cero",
                                "El numero de factura no puede estar vacio"}
      /\ ~NormalizacionEsperada(registro.fechaDomicilio).ok) =>
        Contiene(registro.error, registro.fechaDomicilio)

\* Canonical dates, and the texts that add a time and maybe blanks to one.
FechasCanonicas == {n \in Nucleos : TestFormatoFecha(n)}

ConHora(D) == {m[1] \o D \o s \o m[2] : m \in Margenes, s \in {"T00:00:00Z", " 14:30:00"}}

\* C4: a canonical date D followed by a 'T' or a space and a time, with or
\* without blanks around, normalizes to D on both paths, and D is what a
\* request with such a text stores.
C4_SufijoDeHora ==
  \A D \in FechasCanonicas : \A x \in ConHora(D) :
     /\ NormalizarFechaCrear(x) = [ok |-> TRUE, fecha |-> D]
     /\ NormalizarFechaPut(x) = [ok |-> TRUE, fecha |-> D]
     /\ (resp.op \in {"POST", "PUT"} /\ resp.fecha = x /\ resp.entrega # <<>>) =>
           resp.entrega[1].fecha_domicilio = D

\* An update given a date with a time and blanks around stored the date.
C4_Testigo ==
  /\ resp.op = "PUT"
  /\ resp.status = 200
  /\ resp.fecha = " 2024-01-05 14:30:00 \t"
  /\ resp.entrega[1].fecha_domicilio = "2024-01-05"

\* C5: normalization is idempotent: the result of an accepted text is again
\* accepted and normalizes to itself; so does every stored date.
C5_Idempotente ==
  /\ \A x \in FechasEntrada :
        LET n == NormalizarFechaCrear(x)
        IN n.ok => NormalizarFechaCrear(n.fecha) = n
  /\ \A e \in entregas :
        NormalizarFechaCrear(e.fecha_domicilio) = [ok |-> TRUE, fecha |-> e.fecha_domicilio]

\* A create stored a date that differs from the text it was given.
C5_Testigo ==
  /\ resp.op = "POST"
  /\ resp.status = 201
  /\ resp.fecha # resp.entrega[1].fecha_domicilio
  /\ resp.entrega[1] \in entregas

(***************************************************************************)
(* Properties: range query and aggregation                                 *)
(***************************************************************************)
\* A canonical date as the number yyyymmdd.
FechaNum(s) ==
  ParseInt(SubSeq(s, 1, 4)) * 10000 + ParseInt(SubSeq(s, 6, 7)) * 100
    + ParseInt(SubSeq(s, 9, 10))

\* inicio <= the row's date <= fin
EnIntervalo(e, inicio, fin) ==
  /\ FechaNum(inicio) <= FechaNum(e.fecha_domicilio)
  /\ FechaNum(e.fecha_domicilio) <= FechaNum(fin)

Elementos(l) == {l[i] : i \in 1..Len(l)}

\* The stored rows inside the range of the report being served.
EnRangoDelReporte ==
  {e \in entregas : EnIntervalo(e, SplitPrimero(admin.fechaInicio, "T"),
                                SplitPrimero(admin.fechaFin, "T"))}

RECURSIVE SumaValores(_)
SumaValores(S) ==
  IF S = {} THEN 0
  ELSE LET e == CHOOSE x \in S : TRUE IN e.valor + SumaValores(S \ {e})

Descendente(t) == \A i \in 1..(Len(t) - 1) : t[i].total >= t[i + 1].total

\* C8: the totals calcularTotalesPorUsuario returns, and totales_por_usuario
\* of the report's response, are in descending order of total.
C8_OrdenDescendente ==
  /\ adminPc = "total" => Descendente(admin.totalesPorUserId)
  /\ (resp.op = "GET_ADMIN" /\ resp.status = 200) =>
        Descendente(resp.reporte[1].totales_por_usuario)

\* A report lists two users, the larger total first, although the first row
\* of its record list belongs to the user with the smaller total.
C8_Testigo ==
  /\ resp.op = "GET_ADMIN"
  /\ resp.status = 200
  /\ Len(resp.reporte[1].totales_por_usuario) = 2
  /\ resp.reporte[1].totales_por_usuario[1].total
       > resp.reporte[1].totales_por_usuario[2].total
  /\ resp.reporte[1].entregas[1].usuario_email
       = resp.reporte[1].totales_por_usuario[2].usuario_email

RECURSIVE SumaDelListado(_)
SumaDelListado(l) ==
  IF Len(l) = 0 THEN 0 ELSE Head(l).entrega.valor + SumaDelListado(Tail(l))

\* C9: in every response of the report, total_general is the sum of valor
\* over the entregas of that response, whatever creations, updates and
\* deletions run between the handler's queries.
C9_TotalDelListado ==
  (resp.op = "GET_ADMIN" /\ resp.status = 200) =>
     resp.reporte[1].total_general = SumaDelListado(resp.reporte[1].entregas)

\* C10: when no stored row is in the range (no rows at all, or fecha_inicio
\* after fecha_fin) the report is answered 200 with no records, no totals
\* and total_general 0.
C10_SinCoincidencias ==
  [][(adminPc = "total" /\ adminPc' = "inactivo" /\ EnRangoDelReporte = {}) =>
        /\ resp'.status = 200
        /\ resp'.error = ""
        /\ resp'.reporte[1].entregas = <<>>
        /\ resp'.reporte[1].totales_por_usuario = <<>>
        /\ resp'.reporte[1].total_general = 0]_vars

\* A report over an inverted range came back empty while rows were stored
\* between its two bounds.
C10_Testigo ==
  /\ resp.op = "GET_ADMIN"
  /\ resp.status = 200
  /\ FechaNum(resp.reporte[1].debug.fechaFin) < FechaNum(resp.reporte[1].debug.fechaInicio)
  /\ \E e \in entregas :
        EnIntervalo(e, resp.reporte[1].debug.fechaFin, resp.reporte[1].debug.fechaInicio)
  /\ resp.reporte[1].entregas = <<>>
  /\ resp.reporte[1].totales_por_usuario = <<>>
  /\ resp.reporte[1].total_general = 0

(***************************************************************************)
(* Properties: the stored records                                          *)
(***************************************************************************)
\* Ten characters: four digits, '-', two digits, '-', two digits.
DiezCaracteresFecha(s) ==
  /\ Len(s) = 10
  /\ \A i \in 1..10 :
        IF i \in {5, 8} THEN Car(s, i) = "-"
        ELSE Car(s, i) \in {"0", "1", "2", "3", "4", "5", "6", "7", "8", "9"}

\* C11: after any sequence of creates and updates every stored record's
\* fecha_domicilio is exactly ten characters YYYY-MM-DD, with no time or
\* offset part.
C11_FechaAlmacenada == \A e \in entregas : DiezCaracteresFecha(e.fecha_domicilio)

\* An update given a date with a 'T' time and blanks around was stored.
C11_Testigo ==
  /\ resp.op = "PUT"
  /\ resp.status = 200
  /\ resp.fecha = " 2024-01-05T00:00:00Z \t"
  /\ \E e \in entregas : e.numero_factura = "F-2" /\ e.fecha_domicilio = "2024-01-05"

\* The whole of s is a whole number: an optional sign, then digits only.
EsNumeral(s) ==
  /\ Len(s) > 0
  /\ \A i \in 1..Len(s) :
        \/ Car(s, i) \in {"0", "1", "2", "3", "4", "5", "6", "7", "8", "9"}
        \/ i = 1 /\ Len(s) > 1 /\ Car(s, i) \in {"-", "+"}

\* valor is missing, not a number, zero or negative.
ValorRechazable(v) ==
  \/ v.tipo = "undefined"
  \/ v.tipo = "numero" /\ v.n <= 0
  \/ v.tipo = "texto" /\ ~EsNumeral(v.texto)
  \/ v.tipo = "texto" /\ EsNumeral(v.texto) /\ ParseFloat(v).n <= 0

\* C12: every stored record has valor > 0, and a POST or PUT request whose
\* valor is missing, not a number, zero or negative is answered 400 and
\* creates or changes no record (requests of authenticated callers; the
\* others are answered 401).
C12_ValorPositivo ==
  /\ \A e \in entregas : e.valor > 0
  /\ \A req \in PeticionesUsuario, m \in Momentos :
        ObtenerUsuarioDesdeRequest(req) # Nulo =>
          /\ \A body \in CuerposValidacion("2024-01-05") :
                ValorRechazable(body.valor) =>
                  LET r == ResultadoPost(entregas, req, body, m[1], m[2])
                  IN r.resp.status = 400 /\ r.tabla = entregas
          /\ \A body \in CuerposValidacion("2024-01-01") :
                ValorRechazable(body.valor) =>
                  LET r == ResultadoPut(entregas, req, m[1], body)
                  IN r.resp.status = 400 /\ r.tabla = entregas

SoloBlancos(s) == \A i \in 1..Len(s) : Car(s, i) \in {" ", "\t", "\n"}

SinBlancosEnLosExtremos(s) ==
  /\ Len(s) > 0
  /\ Car(s, 1) \notin {" ", "\t", "\n"}
  /\ Car(s, Len(s)) \notin {" ", "\t", "\n"}

\* t is s without the blanks at its two ends, and t is not empty.
EsRecorteDe(t, s) ==
  /\ SinBlancosEnLosExtremos(t)
  /\ \E i \in 1..Len(s) : \E j \in i..Len(s) :
        /\ t = SubSeq(s, i, j)
        /\ SoloBlancos(SubSeq(s, 1, i - 1))
        /\ SoloBlancos(SubSeq(s, j + 1, Len(s)))

\* C13: every stored record's numero_factura is non-empty with no blank at
\* either end; for an authenticated caller the POST and PUT handlers store
\* the trimmed value and answer 400, changing nothing, when the trimmed value
\* is empty.
C13_FacturaRecortada ==
  /\ \A e \in entregas : SinBlancosEnLosExtremos(e.numero_factura)
  /\ \A req \in PeticionesUsuario, m \in Momentos :
        ObtenerUsuarioDesdeRequest(req) # Nulo =>
          /\ \A body \in CuerposValidacion("2024-01-05") :
                LET r == ResultadoPost(entregas, req, body, m[1], m[2])
                IN /\ SoloBlancos(body.numero_factura) =>
                         r.resp.status = 400 /\ r.tabla = entregas
                   /\ r.resp.entrega # <<>> =>
                         /\ EsRecorteDe(r.resp.entrega[1].numero_factura, body.numero_factura)
                         /\ r.resp.entrega[1] \in r.tabla
          /\ \A body \in CuerposValidacion("2024-01-01") :
                LET r == ResultadoPut(entregas, req, m[1], body)
                IN /\ SoloBlancos(body.numero_factura) =>
                         r.resp.status = 400 /\ r.tabla = entregas
                   /\ r.resp.entrega # <<>> =>
                         /\ EsRecorteDe(r.resp.entrega[1].numero_factura, body.numero_factura)
                         /\ r.resp.entrega[1] \in r.tabla

\* An update whose numero_factura had blanks around stored it trimmed.
C13_Testigo ==
  /\ resp.op = "PUT"
  /\ resp.status = 200
  /\ resp.entrega[1].numero_factura = "F-2"
  /\ resp.entrega[1] \in entregas

\* C14: after any sequence of creations, also creations that draw the same
\* id or happen at the same time, no two stored records share an id.
C14_IdUnico == \A a, b \in entregas : a.id = b.id => a = b

\* Two users' records created at the same time are stored under different
\* ids, and the last creation, which drew an id already stored, was refused.
C14_Testigo ==
  /\ resp.op = "POST"
  /\ resp.status = 500
  /\ \E a, b \in entregas :
        a.id # b.id /\ a.created_at = b.created_at /\ a.user_id # b.user_id

(***************************************************************************)
(* Properties: ownership                                                   *)
(***************************************************************************)
\* C15: a PUT or DELETE by a caller who is not the owner of a stored record
\* leaves that record stored and unchanged, and a PUT or DELETE without a
\* resolvable user is answered 401 and leaves the whole store as it was.
C15_SoloPropietario ==
  \A req \in PeticionesUsuario, m \in Momentos :
    LET usuario == ObtenerUsuarioDesdeRequest(req)
        del == ResultadoDelete(entregas, req, m[1])
    IN /\ usuario = Nulo => del.resp.status = 401 /\ del.tabla = entregas
       /\ \A e \in entregas : e.user_id # usuario => e \in del.tabla
       /\ \A body \in CuerposValidacion("2024-01-01") :
            LET put == ResultadoPut(entregas, req, m[1], body)
            IN /\ usuario = Nulo => put.resp.status = 401 /\ put.tabla = entregas
               /\ \A e \in entregas : e.user_id # usuario => e \in put.tabla

\* A DELETE addressed a stored record, was refused, and both records are
\* still stored: the caller was authenticated and not the owner.
C15_Testigo ==
  /\ resp.op = "DELETE"
  /\ resp.status = 500
  /\ \E a, b \in entregas : a.id = "e1" /\ b.id = "e2" /\ a.user_id # b.user_id

\* C16: a PUT changes at most fecha_domicilio, numero_factura and valor of
\* the addressed record: that record keeps its id, user_id and created_at,
\* every other record stays as it was, and no record is added or removed.
C16_MarcoDelPut ==
  \A req \in PeticionesUsuario, m \in Momentos, body \in CuerposValidacion("2024-01-01") :
    LET put == ResultadoPut(entregas, req, m[1], body)
    IN /\ Cardinality(put.tabla) = Cardinality(entregas)
       /\ \A e \in entregas : e.id # m[1] => e \in put.tabla
       /\ \A n \in put.tabla :
            \E e \in entregas :
               /\ e.id = n.id
               /\ e.user_id = n.user_id
               /\ e.created_at = n.created_at
               /\ e.id # m[1] => e = n
       /\ put.resp.status = 200 =>
            /\ put.resp.entrega[1] \in put.tabla
            /\ put.resp.entrega[1].id = m[1]

\* A PUT changed the date of one of two stored records: the answer is the
\* updated record, and the other record still has the date it was created with.
C16_Testigo ==
  /\ resp.op = "PUT"
  /\ resp.status = 200
  /\ resp.entrega[1] \in entregas
  /\ resp.entrega[1].fecha_domicilio = "2024-01-01"
  /\ \E e \in entregas :
        /\ e.id # resp.entrega[1].id
        /\ e.user_id = resp.entrega[1].user_id
        /\ e.fecha_domicilio = "2024-01-05"

\* C17: a record created through POST belongs to the authenticated caller:
\* the record added and answered has the caller's user_id, and a user_id
\* field in the body changes neither the store nor the answer.
C17_DuenoEsQuienLlama ==
  \A req \in PeticionesUsuario, body \in CuerposValidacion("2024-01-05"), m \in Momentos :
    LET usuario == ObtenerUsuarioDesdeRequest(req)
        post == ResultadoPost(entregas, req, body, m[1], m[2])
        sinCampo == ResultadoPost(entregas, req, [body EXCEPT !.user_id = Nulo], m[1], m[2])
    IN /\ post = sinCampo
       /\ \A n \in post.tabla \ entregas : usuario # Nulo /\ n.user_id = usuario
       /\ post.resp.status = 201 =>
            /\ post.resp.entrega[1] \in post.tabla \ entregas
            /\ post.resp.entrega[1].user_id = usuario

\* The creation whose body named luis as user_id was sent by ana and stored
\* as ana's record.
C17_Testigo ==
  /\ resp.op = "POST"
  /\ resp.status = 201
  /\ resp.entrega[1] \in entregas
  /\ resp.entrega[1].numero_factura = "F-3"
  /\ resp.entrega[1].user_id = "ana"

\* Requests luis can send: with his access token, or with his refresh cookie.
PeticionesDeLuis == {PeticionBearer("tok-luis"), PeticionCookie("ref-luis")}

\* C18: the personal listing returns only records whose user_id is the
\* caller's, whatever token accompanies the query, and nothing answered to
\* luis, who is not an administrator, holds a record of another user: not his
\* listing, not the answer to his creations and updates, and the admin report
\* is refused to him.
C18_SoloLoPropio ==
  /\ \A i \in 1..Len(vista.entregas) : vista.entregas[i].user_id = "luis"
  /\ resp.op = "GET_ADMIN" => resp.status = 403 /\ resp.reporte = <<>>
  /\ \A u \in Usuarios, token \in {Nulo, "tok-ana", "tok-luis", "tok-viejo"} :
       \A l \in ObtenerEntregasPorUsuario(entregas, u, token) :
          \A i \in 1..Len(l) : l[i].user_id = u /\ l[i] \in entregas
  /\ \A req \in PeticionesDeLuis, id \in {"e1", "e2"} :
       LET body == Cuerpo("2024-01-05", "F-1", Numero(50))
           post == ResultadoPost(entregas, req, body, id, "t1")
           put == ResultadoPut(entregas, req, id, body)
       IN /\ \A i \in 1..Len(post.resp.entrega) : post.resp.entrega[i].user_id = "luis"
          /\ \A i \in 1..Len(put.resp.entrega) : put.resp.entrega[i].user_id = "luis"

\* luis listed his records while a record of ana was stored: the listing
\* was answered, holds a stored record, and every stored record of luis.
C18_Testigo ==
  /\ resp.op = "GET"
  /\ resp.status = 200
  /\ \E e \in entregas : e.user_id = "ana"
  /\ \E e \in entregas : e.user_id = "luis"
  /\ \A e \in entregas : e.user_id = "luis" => \E i \in 1..Len(vista.entregas) : vista.entregas[i] = e

(***************************************************************************)
(* Properties: the admin range endpoint                                    *)
(***************************************************************************)
\* Values of NEXT_PUBLIC_ADMIN_EMAILS, the empty one included, and emails.
ListasAdmin == {"", AdminEmails, "jefe@tecni.co,", " , "}

EmailsPrueba == {Nulo, "", " ", "Ana@tecni.co", "ANA@TECNI.CO", "luis@tecni.co", "Jefe@Tecni.Co"}

\* email is in the list, comparing case-insensitively after trimming; a
\* missing or empty email is in no list.
EnLista(adminEmails, email) ==
  /\ email \notin {Nulo, ""}
  /\ \E e \in SplitComas(adminEmails) : ToLowerCase(Trim(e)) = ToLowerCase(Trim(email))

\* Whoever is not in the list is not an administrator, and a refusal carries
\* neither records nor totals.
SinListaNoHayAdmin ==
  /\ \A adminEmails \in ListasAdmin, email \in EmailsPrueba :
       EsAdministradorEn(adminEmails, email) => EnLista(adminEmails, email)
  /\ resp.op = "GET_ADMIN" /\ resp.status \in {401, 403} =>
       resp.reporte = <<>> /\ resp.entrega = <<>>

\* A request to the endpoint without a user is answered 401, one of a user
\* who is not in the list 403; neither starts a query.
RechazoDelReporte ==
  \A req \in PeticionesAdmin, r \in RangosAdmin :
    LET usuario == ObtenerUsuarioDesdeRequest(req)
    IN AdminGetInicio(req, r[1], r[2])
         /\ (usuario = Nulo \/ ~EnLista(AdminEmails, EmailDe(usuario))) =>
       /\ resp'.status = IF usuario = Nulo THEN 401 ELSE 403
       /\ resp'.reporte = <<>>
       /\ resp'.entrega = <<>>
       /\ adminPc' = "inactivo"
       /\ admin' = admin

\* C19: the admin range endpoint answers 401 to a request without a
\* resolvable user and 403 to a user whose email is not in the configured
\* list (compared case-insensitively after trimming; a missing or empty email
\* is never an administrator's, also when the list is empty), and in both
\* cases returns neither records nor totals.
C19_SoloAdministradores == []SinListaNoHayAdmin /\ [][RechazoDelReporte]_vars

\* The report was refused with 403 while records were stored, and no query
\* was started.
C19_Testigo ==
  /\ resp.op = "GET_ADMIN"
  /\ resp.status = 403
  /\ adminPc = "inactivo"
  /\ Cardinality(entregas) = 2

\* The bound the range query compares with, for a parameter of the request.
LimiteUsado(fecha) == SplitPrimero(fecha, "T")

\* C20: the bounds the admin query filters with are always canonical
\* YYYY-MM-DD texts: while the endpoint is querying, and in any report it
\* answers, both bounds have that form.
C20_LimitesCanonicos ==
  /\ adminPc # "inactivo" =>
       /\ TestFormatoFecha(LimiteUsado(admin.fechaInicio))
       /\ TestFormatoFecha(LimiteUsado(admin.fechaFin))
  /\ resp.op = "GET_ADMIN" /\ resp.status = 200 =>
       /\ TestFormatoFecha(LimiteUsado(resp.reporte[1].debug.fechaInicio))
       /\ TestFormatoFecha(LimiteUsado(resp.reporte[1].debug.fechaFin))

(***************************************************************************)
(* Properties: the personal view                                           *)
(***************************************************************************)
\* Every record's date is on or after the date of the record after it.
FechasDescendentes(l) ==
  \A i \in 1..(Len(l) - 1) :
     FechaNum(l[i].fecha_domicilio) >= FechaNum(l[i + 1].fecha_domicilio)

\* C21: the personal listing is in fecha_domicilio descending order, both as
\* obtenerEntregasPorUsuario returns it and as the personal view's date
\* filter leaves it.
C21_ListadoDescendente ==
  /\ \A l \in ObtenerEntregasPorUsuario(entregas, "ana", "tok-ana") : FechasDescendentes(l)
  /\ FechasDescendentes(vista.entregas)
  /\ FechasDescendentes(EntregasFiltradas(vista))

\* The view loaded two records of different dates, the later first, and its
\* filter, which is set, keeps both.
C21_Testigo ==
  /\ vista.fechaInicio # ""
  /\ Len(EntregasFiltradas(vista)) = 2
  /\ FechaNum(EntregasFiltradas(vista)[1].fecha_domicilio)
       > FechaNum(EntregasFiltradas(vista)[2].fecha_domicilio)

(***************************************************************************)
(* Properties: display of dates                                            *)
(***************************************************************************)
\* "{day} de {monthName} de {year}" from the segments of a canonical text
RenderEsperado(meses, f) ==
  Str(ParseInt(SubSeq(f, 9, 10))) \o " de " \o meses[ParseInt(SubSeq(f, 6, 7))]
    \o " de " \o Str(ParseInt(SubSeq(f, 1, 4)))

MesEnRango(f) == TestFormatoFecha(f) /\ ParseInt(SubSeq(f, 6, 7)) \in 1..12

\* The pages whose formatters build the text from the segments alone
MisEntregasSegunSegmentos ==
  MesEnRango(pantalla.fecha) =>
    /\ pantalla.larga = RenderEsperado(Meses, pantalla.fecha)
    /\ pantalla.corta = RenderEsperado(MesesCortos, pantalla.fecha)

\* C22: for every canonical YYYY-MM-DD text with month 01..12 the display
\* formatters of both pages render the day, the month's name and the year of
\* the text's own segments.
C22_FechaMostrada ==
  MesEnRango(pantalla.fecha) =>
    /\ pantalla.larga = RenderEsperado(Meses, pantalla.fecha)
    /\ pantalla.corta = RenderEsperado(MesesCortos, pantalla.fecha)
    /\ pantalla.admin = RenderEsperado(Meses, pantalla.fecha)

(***************************************************************************)
(* Properties: totals                                                      *)
(***************************************************************************)
\* The exact sum of the amounts, in hundredths
RECURSIVE SumaCentavos(_)
SumaCentavos(l) == IF Len(l) = 0 THEN 0 ELSE l[1] + SumaCentavos(Tail(l))

\* The exact sum of the amounts of user u, in hundredths
CentavosDe(u) ==
  SumaCentavos([i \in 1..Len(suma.centavos) |->
                  IF suma.duenos[i] = u THEN suma.centavos[i] ELSE 0])

\* The amounts 0.1, 0.2 and 0.3 added in that order give the number 0.6.
UnoDosTresExacto ==
  suma.centavos = <<10, 20, 30>> => suma.total = DobleDeCentavos(60)

\* C23: summing amounts is exact in decimal: the grand total and each
\* owner's total are the numbers of the exact decimal sums of their amounts,
\* so that 0.1, 0.2 and 0.3 total 0.60.
C23_SumaExacta ==
  /\ suma.total = DobleDeCentavos(SumaCentavos(suma.centavos))
  /\ \A i \in 1..Len(suma.totales) :
       suma.totales[i].total = DobleDeCentavos(CentavosDe(suma.totales[i].user_id))

(***************************************************************************)
(* Properties: ProtegerRuta                                                *)
(***************************************************************************)
\* The children are rendered only for a resolved user, an administrator
\* where requiereAdmin is set; a redirected component goes to '/' when no
\* user resolved and to '/registro' otherwise, and is not authorized.
SoloAutorizados ==
  /\ Renderiza(ruta) = "children" =>
       /\ ruta.usuario # Nulo
       /\ ruta.requiereAdmin => EnLista(AdminEmails, EmailDe(ruta.usuario))
  /\ ruta.pc = "redirigido" =>
       /\ ~ruta.autorizado
       /\ Renderiza(ruta) # "children"
       /\ ruta.destino = IF ruta.usuario = Nulo THEN "/" ELSE "/registro"
       /\ ruta.usuario # Nulo => ruta.requiereAdmin

\* The effect redirects exactly when no user resolves or an administrator is
\* required and the user is none, and a redirected component stays as it is
\* for as long as it is mounted.
RedirigidoParaSiempre ==
  /\ ruta.pc = "verificando" /\ ruta'.montaje = ruta.montaje /\ ruta' # ruta =>
       (ruta'.pc = "redirigido") =
          (sesionActual = Nulo \/ (ruta.requiereAdmin /\ ~EnLista(AdminEmails, EmailDe(sesionActual))))
  /\ ruta.pc = "redirigido" /\ ruta'.montaje = ruta.montaje => ruta' = ruta

\* C24: ProtegerRuta renders its children only when the user has been
\* resolved as authenticated and, with requiereAdmin, as an administrator;
\* without a session it redirects to '/', a non-administrator on an admin
\* route to '/registro', and after either autorizado stays false.
C24_RutaProtegida == []SoloAutorizados /\ [][RedirigidoParaSiempre]_vars

\* The admin page sent luis to '/registro'; afterwards an administrator's
\* session began, and the component is still not authorized.
C24_Testigo ==
  /\ ruta.pc = "redirigido"
  /\ ruta.pagina = "/admin"
  /\ ruta.usuario = "luis"
  /\ ruta.destino = "/registro"
  /\ sesionActual = "ana"
  /\ ~ruta.autorizado

(***************************************************************************)
(* Properties: failures of the range queries                               *)
(***************************************************************************)
\* The store refuses the range query: a bound is no date.
LecturaFallida(fecha_inicio, fecha_fin) ==
  ~(FechaValidaPg(LimiteUsado(fecha_inicio)) /\ FechaValidaPg(LimiteUsado(fecha_fin)))

\* C25: a failure while reading the records of a range is reported as an
\* error to the caller and is not turned into an ordinary result: the three
\* range functions give no list and no total for a read that failed, so a
\* report answered 200 never rests on a failed read.
C25_FalloReportado ==
  /\ \A r \in RangosAdmin :
       ~Falsy(r[1]) /\ ~Falsy(r[2]) /\ LecturaFallida(r[1], r[2]) =>
         <<>> \notin ObtenerEntregasPorRangoFechas(entregas, r[1], r[2])
  /\ resp.op = "GET_ADMIN" /\ resp.status = 200 =>
       ~LecturaFallida(resp.reporte[1].debug.fechaInicio, resp.reporte[1].debug.fechaFin)

\* The totals of the owners, added up
RECURSIVE SumaDeTotales(_)
SumaDeTotales(t) ==
  IF Len(t) = 0 THEN Cero
  ELSE SumarDoble(SumaDeTotales(SubSeq(t, 1, Len(t) - 1)), t[Len(t)].total)

\* There is one owner total for each user_id among the rows.
UnTotalPorDueno ==
  /\ Len(suma.totales) = Cardinality({suma.duenos[i] : i \in 1..Len(suma.duenos)})
  /\ \A i, j \in 1..Len(suma.totales) :
       suma.totales[i].user_id = suma.totales[j].user_id => i = j

\* With whole amounts the owners' totals add up to the grand total.
TotalesEnterosCuadran ==
  (\A i \in 1..Len(suma.centavos) : suma.centavos[i] % 100 = 0) =>
     SumaDeTotales(suma.totales) = suma.total

\* C26: over one list of rows, the totals of calcularTotalesPorUsuario add up
\* to the value of calcularTotalGeneral, and there are as many owner totals
\* as distinct user_id values among the rows.
C26_TotalesCuadran ==
  /\ SumaDeTotales(suma.totales) = suma.total
  /\ UnTotalPorDueno

(***************************************************************************)
(* Properties: the two normalizations                                      *)
(***************************************************************************)
\* C27: crearEntrega and the PUT handler normalize dates identically: every
\* date text is rejected by both or accepted by both with the same date, so
\* that a date stored by one path is the date the other would have stored.
C27_MismaNormalizacion ==
  /\ \A f \in FechasEntrada :
       /\ NormalizarFechaCrear(f).ok = NormalizarFechaPut(f).ok
       /\ NormalizarFechaCrear(f).ok =>
            NormalizarFechaCrear(f).fecha = NormalizarFechaPut(f).fecha
  /\ resp.op = "POST" /\ resp.status = 201 =>
       /\ NormalizarFechaPut(resp.fecha).ok
       /\ resp.entrega[1].fecha_domicilio = NormalizarFechaPut(resp.fecha).fecha
  /\ resp.op = "PUT" /\ resp.status = 200 =>
       /\ NormalizarFechaCrear(resp.fecha).ok
       /\ resp.entrega[1].fecha_domicilio = NormalizarFechaCrear(resp.fecha).fecha
  /\ resp.op = "PUT" /\ resp.error = MensajeFechaInvalida(resp.fecha) =>
       ~NormalizarFechaCrear(resp.fecha).ok

\* A creation stored a date that differs from the text it was given and is
\* the one the update path computes for that text.
C27_Testigo ==
  /\ resp.op = "POST"
  /\ resp.status = 201
  /\ resp.entrega[1] \in entregas
  /\ resp.fecha # resp.entrega[1].fecha_domicilio
  /\ Includes(resp.fecha, "T")
  /\ NormalizarFechaPut(resp.fecha).fecha = resp.entrega[1].fecha_domicilio

(***************************************************************************)
(* Properties: editing in the personal view                                *)
(***************************************************************************)
\* A save ends in this step while the page is editing another record than
\* the one saved.
TerminaGuardadoDeOtra ==
  /\ edicion.enVuelo.id # Nulo
  /\ edicion'.enVuelo.id = Nulo
  /\ edicion.editandoId # Nulo
  /\ edicion.editandoId # edicion.enVuelo.id

\* C28: the end of a save of record A leaves edit mode only for A: when the
\* page is by then editing another record B, editandoId and the edit fields
\* of B stay as they are.
C28_SoloSaleDeLaGuardada ==
  [][TerminaGuardadoDeOtra =>
       /\ edicion'.editandoId = edicion.editandoId
       /\ edicion'.editandoFecha = edicion.editandoFecha
       /\ edicion'.editandoFactura = edicion.editandoFactura
       /\ edicion'.editandoValor = edicion.editandoValor]_vars

(***************************************************************************)
(* Properties: request authentication                                      *)
(***************************************************************************)
\* The token of a header that starts with 'Bearer '
TokenDeCabecera(req) == SubSeq(req.authorization, 8, Len(req.authorization))

\* C29: the Authorization header takes precedence: a request whose header
\* starts with 'Bearer ' is resolved from that token alone, and is answered
\* 401 when the token resolves no user, whatever cookies it carries; the
\* cookies decide only for a request without such a header.
C29_CabeceraPrimero ==
  \A req \in PeticionesMixtas :
    LET usuario == ObtenerUsuarioDesdeRequest(req)
        body == Cuerpo("2024-01-05", "F-1", Numero(50))
    IN IF StartsWithBearer(req.authorization)
       THEN /\ usuario = UsuarioDeAccessToken(TokenDeCabecera(req))
            /\ usuario = Nulo =>
                 /\ ResultadoGet(entregas, req) = [status |-> 401, listas |-> {<<>>}]
                 /\ ResultadoPost(entregas, req, body, "e1", "t1").resp.status = 401
                 /\ ResultadoPut(entregas, req, "e1", body).resp.status = 401
                 /\ ResultadoDelete(entregas, req, "e1").resp.status = 401
       ELSE usuario = UsuarioDeCookies(req)

\* While luis has a record stored, a listing that carried his cookies was
\* answered 401: its header held a token that resolves no user.
C29_Testigo ==
  /\ resp.op = "GET"
  /\ resp.status = 401
  /\ resp.entrega = <<>>
  /\ \E e \in entregas : e.user_id = "luis"

(***************************************************************************)
(* Properties: the reset-password form                                     *)
(***************************************************************************)
\* Both entries non-empty, equal and of at least six characters
EntradasValidas(r) ==
  /\ r.password # ""
  /\ r.confirmarPassword # ""
  /\ r.password = r.confirmarPassword
  /\ Len(r.password) >= 6

\* A session is active, or the URL holds an access and a refresh token from
\* which one can be established
SesionActivaOEstablecida(r) ==
  \/ r.sesion
  \/ \E ps \in {r.url.query} \cup {r.url.hash[i] : i \in DOMAIN r.url.hash} :
       ps.access_token # "" /\ ps.refresh_token # "" /\ SetSession(ps.access_token, ps.refresh_token)

\* C30: a submit of the reset-password form sends a password update only
\* when both entries are non-empty, equal and at least 6 characters long and
\* a session is active or is established from the URL's tokens; in every
\* other case it ends with an error message and sends no update.
C30_UpdateSoloConEntradasYSesion ==
  \A config \in BOOLEAN, updateError \in ErroresDeUpdate :
    LET despues == ResultadoSubmitReset(reset, config, updateError)
    IN /\ despues.enviado # Nulo =>
            /\ EntradasValidas(reset)
            /\ SesionActivaOEstablecida(reset)
            /\ despues.enviado = reset.password
       /\ ~(EntradasValidas(reset) /\ SesionActivaOEstablecida(reset)) =>
            /\ despues.enviado = Nulo
            /\ despues.error # ""
            /\ ~despues.exito

\* A submit has sent the update for two equal entries of six characters
\* and the page shows its success message.
C30_Testigo ==
  /\ reset.exito
  /\ reset.enviado = "abcdef"
  /\ EntradasValidas(reset)

====
